---------------------------- MODULE Spec2Model ----------------------------
(***************************************************************************)
(* A model of the video upscaler's pipeline orchestrator                   *)
(* (core/video_worker.py), of the task queue that drives it                *)
(* (gui/task_queue.py) and of the frame loop of the interpolation stage    *)
(* (core/rife_engine.py, core/interpolator.py).                            *)
(*                                                                         *)
(* Seven specifications share the module:                                  *)
(*   Spec        one VideoWorker run, the caller's stop() arriving at any  *)
(*               moment, every stage free to fail;                         *)
(*   SpecQueue   the TaskQueueWidget with the workers it starts;           *)
(*   SpecInterp  the interpolation stage's frame loop, both engines;       *)
(*   SpecUpscale one upscale_batch call of the upscaler (core/upscaler.py);*)
(*   SpecEncode  one encode_video call (core/video_engine.py);             *)
(*   SpecVram    the accelerator-memory check (config/presets.py);         *)
(*   SpecBuffer  a FrameBuffer used by several threads                     *)
(*               (core/performance.py).                                    *)
(* The variables a specification does not use keep their initial value.    *)
(***************************************************************************)
EXTENDS Integers, Sequences, FiniteSets, TLC

(* ------------------------------ bounds -------------------------------- *)

\* The largest number of frames the extractor may report for one video.
MaxFrames == 3

\* The largest number of workers the queue starts in one behaviour.
MaxWorkers == 2

\* The largest amount of accelerator memory tried, in tenths of a gigabyte.
MaxVram == 80

\* The frame buffer: the largest max_size, the number of put calls, and the
\* numbers of producer and consumer threads.
MaxBufferSize == 2
MaxPut == 3
NumProducers == 2
NumConsumers == 2

(* -------------------------- worker: state ----------------------------- *)

VARIABLES
    pc,                 \* where run()/_process() stands
    is_running,         \* VideoWorker._is_running
    stop_called,        \* history: stop() has been called on this worker
    enable_interpolate, \* VideoWorker.enable_interpolate
    resources_ok,       \* environment: what ResourceMonitor.check_all would answer
    resource_checks,    \* history: calls of ResourceMonitor.check_all
    temp_dir,           \* "none" | "exists" | "removed": the mkdtemp directory
    stage_dirs,         \* the stage directories that exist inside the temp dir
    upscaler,           \* self.upscaler is set
    interpolator,       \* self.interpolator is set
    rife_loaded,        \* the interpolator holds a loaded RIFE model
    frame_count,        \* frames the extractor wrote
    upscaled_count,     \* frames the upscale stage wrote
    loop_i,             \* frames the running stage loop has handled
    interpolated_dir,   \* the directory handed to the encoder
    stages,             \* history: the stages entered, in order
    tools_invoked,      \* history: the external tool invocations, in order
    progress_emitted,   \* history: the values of progress.emit(v, 100)
    finished_emitted,   \* history: the finished.emit(success, message) calls
    stop_observed,      \* history: the boundaries at which a stop was observed
    encoder_invoked,    \* history: encode_video ran the media tool
    output_written,     \* a file exists at output_path written by this task
    preset,             \* VideoWorker.preset: "fast" 流畅, "standard" 标准, "high" 高清
    video_fps,          \* environment: the frame rate ffprobe reports
    output_fps,         \* the rate extract_frames returned, 0 before
    interp_source_fps,  \* history: source_fps given to interpolate_frames
    final_fps,          \* the rate kept for the encoder, 0 before
    turns_after_stop,   \* history: turns of the running stage's frame loop
                        \* begun after stop() was called
    raised,             \* history: the exception run() caught (kind "none": none)
    pair_fallbacks      \* history: pairs of the interpolation stage that
                        \* raised and got the fallback copy

wvars == <<pc, is_running, stop_called, enable_interpolate, resources_ok,
           resource_checks, temp_dir, stage_dirs, upscaler, interpolator,
           rife_loaded, frame_count, upscaled_count, loop_i, interpolated_dir,
           stages, tools_invoked, progress_emitted, finished_emitted,
           stop_observed, encoder_invoked, output_written, preset, video_fps,
           output_fps, interp_source_fps, final_fps, turns_after_stop,
           raised, pair_fallbacks>>

\* The presets the main window offers.
Presets == {"fast", "standard", "high"}

\* The frame rates of the videos tried, in hundredths.
VideoRates == {2400, 3000}

\* PRESETS[level].target_fps, 0 for None.
preset_target_fps(name) ==
    CASE name = "fast" -> 0
      [] name = "standard" -> 6000
      [] name = "high" -> 6000

\* ProcessingOptions.output_fps:
\* self.target_fps if self.target_fps else self.source_fps
options_output_fps(target_fps, source_fps) ==
    IF target_fps # 0 THEN target_fps ELSE source_fps

\* extract_frames with options: options.source_fps = source_fps;
\* output_fps = options.output_fps.
extract_output_fps(name, source_fps) ==
    options_output_fps(preset_target_fps(name), source_fps)


\* ResourceMonitor.check_all: passes when none of the three checks fails.
check_all(disk_ok, memory_ok, vram_ok) ==
    LET failures == (IF disk_ok THEN {} ELSE {"disk"})
                    \cup (IF memory_ok THEN {} ELSE {"memory"})
                    \cup (IF vram_ok THEN {} ELSE {"vram"})
    IN  Cardinality(failures) = 0

\* progress = 10 + int(current / total * 50)
\* (for the totals of this model Python's float expression equals the floor)
UpscaleProgress(current, total) == 10 + ((current * 50) \div total)

\* Faulty variant: the interpolation callback computes the legacy formula of
\* _on_frame_progress, 10 + int(current / total * 70).
InterpolateProgressLegacy(current, total) == 10 + ((current * 70) \div total)

\* progress = 60 + int(current / total * 20)
InterpolateProgress(current, total) == 60 + ((current * 20) \div total)

(* ------------------------- frame-rate arithmetic ---------------------- *)
\* Frame rates are held in hundredths (23.98 fps is 2398): get_video_info
\* rounds the probed rate to two decimals.

\* The source rates tried, in hundredths of a frame per second.
SourceRates == {1500, 2000, 2398, 2400, 2500, 2997, 3000, 4800, 5000, 6000, 12000}

\* int(source_fps)
IntFps(fps) == fps \div 100

\* InterpolatorEngine.TARGET_FPS.get(int(source_fps), 60)
TARGET_FPS(source_fps) ==
    CASE IntFps(source_fps) = 24 -> 6000
      [] IntFps(source_fps) = 25 -> 6000
      [] IntFps(source_fps) = 30 -> 6000
      [] OTHER -> 6000

\* The target rates a direct call of an engine may name.
TargetRates == {1000, 2400, 3000, 5994, 6000, 12000}

\* RIFEEngine.TARGET_FPS_MAP.get(int(source_fps), 60)
TARGET_FPS_MAP(source_fps) ==
    CASE IntFps(source_fps) \in {24, 25, 30, 48, 50, 60} -> 6000
      [] OTHER -> 6000

\* if target_fps is None: target_fps = self.TARGET_FPS_MAP.get(...)
resolve_target(source_fps, target_fps) ==
    IF target_fps = 0 THEN TARGET_FPS_MAP(source_fps) ELSE target_fps

\* RIFEEngine.calculate_interpolation_frames: with ratio = target / source,
\* ratio <= 1.0 gives (0, source_fps), otherwise (int(ratio - 1), target_fps).
\* (For the rates of this model the float quotient is an integer exactly
\* when the rational one is, so int() is the integer quotient.)
calculate_interpolation_frames(source_fps, target_fps) ==
    LET target == resolve_target(source_fps, target_fps)
    IN  IF target <= source_fps
        THEN [count |-> 0, fps |-> source_fps]
        ELSE [count |-> ((target - source_fps) \div source_fps),
              fps |-> target]

\* Faulty variant: the ratio itself is taken as the number of copies.
n_duplicates_is_ratio(source_fps, target_fps) == target_fps \div source_fps

\* _simple_interpolate: n_duplicates = int(target_fps / source_fps) - 1
n_duplicates(source_fps, target_fps) == (target_fps \div source_fps) - 1

\* The rate InterpolatorEngine.interpolate_frames returns for a directory of
\* n frames: (0, source_fps) when it is empty, else the engine's rate.
interpolate_frames_fps(rife, n, source_fps) ==
    IF n = 0 THEN source_fps
    ELSE IF rife
    THEN calculate_interpolation_frames(source_fps,
                                        TARGET_FPS(source_fps)).fps
    ELSE TARGET_FPS(source_fps)

WorkerInit ==
    /\ pc = "start"
    /\ is_running = TRUE
    /\ stop_called = FALSE
    /\ enable_interpolate \in BOOLEAN
    /\ resources_ok \in {check_all(d, m, v) : d, m, v \in BOOLEAN}
    /\ resource_checks = 0
    /\ temp_dir = "none"
    /\ stage_dirs = {}
    /\ upscaler = FALSE
    /\ interpolator = FALSE
    /\ rife_loaded = FALSE
    /\ frame_count = 0
    /\ upscaled_count = 0
    /\ loop_i = 0
    /\ interpolated_dir = "none"
    /\ stages = <<>>
    /\ tools_invoked = <<>>
    /\ progress_emitted = <<>>
    /\ finished_emitted = <<>>
    /\ stop_observed = {}
    /\ encoder_invoked = FALSE
    /\ output_written = FALSE
    /\ preset \in Presets
    /\ video_fps \in VideoRates
    /\ output_fps = 0
    /\ interp_source_fps = 0
    /\ final_fps = 0
    /\ turns_after_stop = 0
    /\ raised = [kind |-> "none", message |-> ""]
    /\ pair_fallbacks = 0

(* ------------------------- worker: operations ------------------------- *)

\* VideoWorker.stop, called by the queue (pause, remove, clear) at any moment
\* of the run; a second call changes nothing.
Stop ==
    /\ ~stop_called
    /\ stop_called' = TRUE
    /\ is_running' = FALSE
    /\ UNCHANGED <<pc, enable_interpolate, resources_ok, resource_checks,
                   temp_dir, stage_dirs, upscaler, interpolator, rife_loaded,
                   frame_count, upscaled_count, loop_i, interpolated_dir,
                   stages, tools_invoked, progress_emitted, finished_emitted,
                   stop_observed, encoder_invoked, output_written>>
    /\ UNCHANGED <<preset, video_fps, output_fps, interp_source_fps,
                   final_fps, turns_after_stop>>
    /\ UNCHANGED <<raised, pair_fallbacks>>

\* run(): an exception of _process is reported as finished(False, str(e)),
\* and the finally clause follows.  The message stands for the text before
\* the colon; the tool's stderr follows it where the code appends it.
Raise(kind, message) ==
    /\ raised' = [kind |-> kind, message |-> message]
    /\ finished_emitted' =
          Append(finished_emitted, [success |-> FALSE, message |-> message])
    /\ pc' = "cleanup"

\* _process returns without a word: `if not self._is_running: return`.
ReturnSilently(boundary) ==
    /\ stop_observed' = stop_observed \cup {boundary}
    /\ pc' = "cleanup"

\* Faulty variant: the run sets the flag again when it starts.
InitEngineSetsRunning ==
    /\ pc = "start"
    /\ is_running' = TRUE
    /\ tools_invoked' = Append(tools_invoked, "ffmpeg -version")
    /\ pc' = "probe"
    /\ UNCHANGED <<stop_called, enable_interpolate, resources_ok,
                   resource_checks, temp_dir, stage_dirs, upscaler,
                   interpolator, rife_loaded, frame_count, upscaled_count,
                   loop_i, interpolated_dir, stages, progress_emitted,
                   finished_emitted, stop_observed, encoder_invoked,
                   output_written>>
    /\ UNCHANGED <<preset, video_fps, output_fps, interp_source_fps,
                   final_fps, turns_after_stop>>
    /\ UNCHANGED <<raised, pair_fallbacks>>

\* VideoEngine(ffmpeg_path): _check_ffmpeg runs `ffmpeg -version`.
InitEngine ==
    /\ pc = "start"
    /\ tools_invoked' = Append(tools_invoked, "ffmpeg -version")
    /\ \/ /\ pc' = "probe"
          /\ UNCHANGED <<finished_emitted, raised>>
       \/ Raise("RuntimeError", "FFmpeg check failed")
    /\ UNCHANGED <<is_running, stop_called, enable_interpolate, resources_ok,
                   resource_checks, temp_dir, stage_dirs, upscaler,
                   interpolator, rife_loaded, frame_count, upscaled_count,
                   loop_i, interpolated_dir, stages, progress_emitted,
                   stop_observed, encoder_invoked, output_written>>
    /\ UNCHANGED <<preset, video_fps, output_fps, interp_source_fps,
                   final_fps, turns_after_stop>>
    /\ UNCHANGED pair_fallbacks

\* get_video_info(input_path): runs ffprobe.
Probe ==
    /\ pc = "probe"
    /\ stages' = Append(stages, "Probing")
    /\ tools_invoked' = Append(tools_invoked, "ffprobe")
    /\ \/ /\ pc' = "mkdtemp"
          /\ UNCHANGED <<finished_emitted, raised>>
       \/ Raise("RuntimeError", "Failed to probe video: stderr")
    /\ UNCHANGED <<is_running, stop_called, enable_interpolate, resources_ok,
                   resource_checks, temp_dir, stage_dirs, upscaler,
                   interpolator, rife_loaded, frame_count, upscaled_count,
                   loop_i, interpolated_dir, progress_emitted, stop_observed,
                   encoder_invoked, output_written>>
    /\ UNCHANGED <<preset, video_fps, output_fps, interp_source_fps,
                   final_fps, turns_after_stop>>
    /\ UNCHANGED pair_fallbacks

\* self._temp_dir = tempfile.mkdtemp(prefix="upscaler_")
MakeTempDir ==
    /\ pc = "mkdtemp"
    /\ \/ /\ temp_dir' = "exists"
          /\ pc' = "check_extract"
          /\ UNCHANGED <<finished_emitted, raised>>
       \/ /\ Raise("OSError", "mkdtemp failed")
          /\ UNCHANGED temp_dir
    /\ UNCHANGED <<is_running, stop_called, enable_interpolate, resources_ok,
                   resource_checks, stage_dirs, upscaler, interpolator,
                   rife_loaded, frame_count, upscaled_count, loop_i,
                   interpolated_dir, stages, tools_invoked, progress_emitted,
                   stop_observed, encoder_invoked, output_written>>
    /\ UNCHANGED <<preset, video_fps, output_fps, interp_source_fps,
                   final_fps, turns_after_stop>>
    /\ UNCHANGED pair_fallbacks

\* The check before extraction.
CheckExtract ==
    /\ pc = "check_extract"
    /\ \/ /\ ~is_running
          /\ ReturnSilently("extract")
       \/ /\ is_running
          /\ pc' = "extract"
          /\ UNCHANGED stop_observed
    /\ UNCHANGED <<is_running, stop_called, enable_interpolate, resources_ok,
                   resource_checks, temp_dir, stage_dirs, upscaler,
                   interpolator, rife_loaded, frame_count, upscaled_count,
                   loop_i, interpolated_dir, stages, tools_invoked,
                   progress_emitted, finished_emitted, encoder_invoked,
                   output_written>>
    /\ UNCHANGED <<preset, video_fps, output_fps, interp_source_fps,
                   final_fps, turns_after_stop>>
    /\ UNCHANGED <<raised, pair_fallbacks>>

\* extract_frames: probes again, creates frames/, runs ffmpeg, counts the
\* files; then progress.emit(10, 100).
Extract ==
    /\ pc = "extract"
    /\ stages' = Append(stages, "Extracting")
    /\ \/ /\ tools_invoked' = Append(tools_invoked, "ffprobe")
          /\ Raise("RuntimeError", "Failed to probe video: stderr")
          /\ UNCHANGED <<stage_dirs, frame_count, progress_emitted, output_fps>>
       \/ /\ tools_invoked' = tools_invoked \o <<"ffprobe", "ffmpeg extract">>
          /\ stage_dirs' = stage_dirs \cup {"frames"}
          /\ Raise("RuntimeError", "FFmpeg failed: stderr")
          /\ UNCHANGED <<frame_count, progress_emitted, output_fps>>
       \/ /\ tools_invoked' = tools_invoked \o <<"ffprobe", "ffmpeg extract">>
          /\ stage_dirs' = stage_dirs \cup {"frames"}
          /\ \E n \in 0..MaxFrames : frame_count' = n
          /\ output_fps' = extract_output_fps(preset, video_fps)
          /\ progress_emitted' = Append(progress_emitted, 10)
          /\ pc' = "check_upscale"
          /\ UNCHANGED <<finished_emitted, raised>>
    /\ UNCHANGED <<is_running, stop_called, enable_interpolate, resources_ok,
                   resource_checks, temp_dir, upscaler, interpolator,
                   rife_loaded, upscaled_count, loop_i, interpolated_dir,
                   stop_observed, encoder_invoked, output_written>>
    /\ UNCHANGED <<preset, video_fps, interp_source_fps, final_fps,
                   turns_after_stop>>
    /\ UNCHANGED pair_fallbacks

\* The check before upscaling.
CheckUpscale ==
    /\ pc = "check_upscale"
    /\ \/ /\ ~is_running
          /\ ReturnSilently("upscale")
       \/ /\ is_running
          /\ pc' = "upscale_init"
          /\ UNCHANGED stop_observed
    /\ UNCHANGED <<is_running, stop_called, enable_interpolate, resources_ok,
                   resource_checks, temp_dir, stage_dirs, upscaler,
                   interpolator, rife_loaded, frame_count, upscaled_count,
                   loop_i, interpolated_dir, stages, tools_invoked,
                   progress_emitted, finished_emitted, encoder_invoked,
                   output_written>>
    /\ UNCHANGED <<preset, video_fps, output_fps, interp_source_fps,
                   final_fps, turns_after_stop>>
    /\ UNCHANGED <<raised, pair_fallbacks>>

\* UpscalerEngine(preset, ...) loads the model or raises; upscale_batch then
\* lists the frames and creates upscaled/.
UpscaleInit ==
    /\ pc = "upscale_init"
    /\ stages' = Append(stages, "Upscaling")
    /\ \/ /\ Raise("RuntimeError", "Failed to load model")
          /\ UNCHANGED <<upscaler, stage_dirs, loop_i, upscaled_count,
                         turns_after_stop>>
       \/ /\ upscaler' = TRUE
          /\ stage_dirs' = stage_dirs \cup {"upscaled"}
          /\ loop_i' = 0
          /\ upscaled_count' = 0
          /\ turns_after_stop' = 0
          /\ pc' = "upscale_loop"
          /\ UNCHANGED <<finished_emitted, raised>>
    /\ UNCHANGED <<is_running, stop_called, enable_interpolate, resources_ok,
                   resource_checks, temp_dir, interpolator, rife_loaded,
                   frame_count, interpolated_dir, tools_invoked,
                   progress_emitted, stop_observed, encoder_invoked,
                   output_written>>
    /\ UNCHANGED <<preset, video_fps, output_fps, interp_source_fps,
                   final_fps>>
    /\ UNCHANGED pair_fallbacks

\* One turn of upscale_batch's loop: the frame is written, or its failure is
\* logged and nothing is written; then progress_callback(i + 1, total).
UpscaleFrame ==
    /\ pc = "upscale_loop"
    /\ loop_i < frame_count
    /\ \/ upscaled_count' = upscaled_count + 1
       \/ UNCHANGED upscaled_count
    /\ loop_i' = loop_i + 1
    /\ progress_emitted' =
          Append(progress_emitted, UpscaleProgress(loop_i + 1, frame_count))
    /\ UNCHANGED <<pc, is_running, stop_called, enable_interpolate,
                   resources_ok, resource_checks, temp_dir, stage_dirs,
                   upscaler, interpolator, rife_loaded, frame_count,
                   interpolated_dir, stages, tools_invoked, finished_emitted,
                   stop_observed, encoder_invoked, output_written>>
    /\ turns_after_stop' = turns_after_stop + (IF stop_called THEN 1 ELSE 0)
    /\ UNCHANGED <<preset, video_fps, output_fps, interp_source_fps,
                   final_fps>>
    /\ UNCHANGED <<raised, pair_fallbacks>>

\* Faulty variant: the extracted frames are kept after upscaling.
UpscaleDoneKeepsFrames ==
    /\ pc = "upscale_loop"
    /\ loop_i = frame_count
    /\ progress_emitted' = Append(progress_emitted, 60)
    /\ pc' = "check_interpolate"
    /\ UNCHANGED <<is_running, stop_called, enable_interpolate, resources_ok,
                   resource_checks, temp_dir, stage_dirs, upscaler,
                   interpolator, rife_loaded, frame_count, upscaled_count,
                   loop_i, interpolated_dir, stages, tools_invoked,
                   finished_emitted, stop_observed, encoder_invoked,
                   output_written>>
    /\ UNCHANGED <<preset, video_fps, output_fps, interp_source_fps,
                   final_fps, turns_after_stop>>
    /\ UNCHANGED <<raised, pair_fallbacks>>

\* upscale_batch has returned: frames/ is deleted, progress.emit(60, 100).
UpscaleDone ==
    /\ pc = "upscale_loop"
    /\ loop_i = frame_count
    /\ stage_dirs' = stage_dirs \ {"frames"}
    /\ progress_emitted' = Append(progress_emitted, 60)
    /\ pc' = "check_interpolate"
    /\ UNCHANGED <<is_running, stop_called, enable_interpolate, resources_ok,
                   resource_checks, temp_dir, upscaler, interpolator,
                   rife_loaded, frame_count, upscaled_count, loop_i,
                   interpolated_dir, stages, tools_invoked, finished_emitted,
                   stop_observed, encoder_invoked, output_written>>
    /\ UNCHANGED <<preset, video_fps, output_fps, interp_source_fps,
                   final_fps, turns_after_stop>>
    /\ UNCHANGED <<raised, pair_fallbacks>>

\* interpolated_dir = upscaled_dir;
\* if self.enable_interpolate and self._is_running: ...
CheckInterpolate ==
    /\ pc = "check_interpolate"
    /\ interpolated_dir' = "upscaled"
    /\ \/ /\ ~enable_interpolate
          /\ pc' = "after_interpolate"
          /\ UNCHANGED stop_observed
       \/ /\ enable_interpolate
          /\ ~is_running
          /\ stop_observed' = stop_observed \cup {"interpolate"}
          /\ pc' = "after_interpolate"
       \/ /\ enable_interpolate
          /\ is_running
          /\ pc' = "interpolate_init"
          /\ UNCHANGED stop_observed
    /\ UNCHANGED <<is_running, stop_called, enable_interpolate, resources_ok,
                   resource_checks, temp_dir, stage_dirs, upscaler,
                   interpolator, rife_loaded, frame_count, upscaled_count,
                   loop_i, stages, tools_invoked, progress_emitted,
                   finished_emitted, encoder_invoked, output_written>>
    /\ final_fps' = output_fps
    /\ UNCHANGED <<preset, video_fps, output_fps, interp_source_fps,
                   turns_after_stop>>
    /\ UNCHANGED <<raised, pair_fallbacks>>

\* InterpolatorEngine(...): the RIFE model loads or the simple fallback is
\* used (is_available() is True either way); interpolate_frames then creates
\* interpolated/ and lists the upscaled frames.
InterpolateInit ==
    /\ pc = "interpolate_init"
    /\ stages' = Append(stages, "Interpolating")
    /\ interpolated_dir' = "interpolated"
    /\ interpolator' = TRUE
    /\ rife_loaded' \in BOOLEAN
    /\ stage_dirs' = stage_dirs \cup {"interpolated"}
    /\ loop_i' = 0
    /\ pc' = "interpolate_loop"
    /\ UNCHANGED <<is_running, stop_called, enable_interpolate, resources_ok,
                   resource_checks, temp_dir, upscaler, frame_count,
                   upscaled_count, tools_invoked, progress_emitted,
                   finished_emitted, stop_observed, encoder_invoked,
                   output_written>>
    /\ interp_source_fps' = output_fps
    /\ turns_after_stop' = 0
    /\ UNCHANGED <<preset, video_fps, output_fps, final_fps>>
    /\ UNCHANGED <<raised, pair_fallbacks>>

\* One turn of the interpolation loop; then progress_callback(i + 1, total).
InterpolateFrame ==
    /\ pc = "interpolate_loop"
    /\ loop_i < upscaled_count
    /\ loop_i' = loop_i + 1
    /\ progress_emitted' =
          Append(progress_emitted,
                 InterpolateProgress(loop_i + 1, upscaled_count))
    /\ UNCHANGED <<pc, is_running, stop_called, enable_interpolate,
                   resources_ok, resource_checks, temp_dir, stage_dirs,
                   upscaler, interpolator, rife_loaded, frame_count,
                   upscaled_count, interpolated_dir, stages, tools_invoked,
                   finished_emitted, stop_observed, encoder_invoked,
                   output_written>>
    /\ turns_after_stop' = turns_after_stop + (IF stop_called THEN 1 ELSE 0)
    /\ UNCHANGED <<preset, video_fps, output_fps, interp_source_fps,
                   final_fps>>
    /\ \/ UNCHANGED pair_fallbacks
       \/ /\ rife_loaded
          /\ loop_i < upscaled_count - 1
          /\ calculate_interpolation_frames(
                 output_fps, TARGET_FPS(output_fps)).count > 0
          /\ pair_fallbacks' = pair_fallbacks + 1
    /\ UNCHANGED raised

\* Faulty variant: a failed interpolation stage sends the task back to upscaling.
InterpolateRaiseRetriesUpscale ==
    /\ pc = "interpolate_loop"
    /\ loop_i < upscaled_count
    /\ interpolated_dir' = "upscaled"
    /\ pc' = "upscale_init"
    /\ UNCHANGED <<is_running, stop_called, enable_interpolate, resources_ok,
                   resource_checks, temp_dir, stage_dirs, upscaler,
                   interpolator, rife_loaded, frame_count, upscaled_count,
                   loop_i, stages, tools_invoked, progress_emitted,
                   finished_emitted, stop_observed, encoder_invoked,
                   output_written>>
    /\ final_fps' = output_fps
    /\ UNCHANGED <<preset, video_fps, output_fps, interp_source_fps,
                   turns_after_stop>>
    /\ UNCHANGED <<raised, pair_fallbacks>>

\* Faulty variant: an exception of the interpolation stage ends the task.
InterpolateRaiseFailsTask ==
    /\ pc = "interpolate_loop"
    /\ loop_i < upscaled_count
    /\ Raise("RuntimeError", "Interpolation failed")
    /\ UNCHANGED <<is_running, stop_called, enable_interpolate, resources_ok,
                   resource_checks, temp_dir, stage_dirs, upscaler,
                   interpolator, rife_loaded, frame_count, upscaled_count,
                   loop_i, interpolated_dir, stages, tools_invoked,
                   progress_emitted, stop_observed, encoder_invoked,
                   output_written>>
    /\ UNCHANGED <<preset, video_fps, output_fps, interp_source_fps,
                   final_fps, turns_after_stop>>
    /\ UNCHANGED pair_fallbacks

\* Faulty variant: the upscaled frames are deleted although the stage raised.
InterpolateRaiseCleansUpscaled ==
    /\ pc = "interpolate_loop"
    /\ loop_i < upscaled_count
    /\ interpolated_dir' = "upscaled"
    /\ stage_dirs' = stage_dirs \ {"upscaled"}
    /\ pc' = "after_interpolate"
    /\ UNCHANGED <<is_running, stop_called, enable_interpolate, resources_ok,
                   resource_checks, temp_dir, upscaler,
                   interpolator, rife_loaded, frame_count, upscaled_count,
                   loop_i, stages, tools_invoked, progress_emitted,
                   finished_emitted, stop_observed, encoder_invoked,
                   output_written>>
    /\ final_fps' = output_fps
    /\ UNCHANGED <<preset, video_fps, output_fps, interp_source_fps,
                   turns_after_stop>>
    /\ UNCHANGED <<raised, pair_fallbacks>>

\* The stage raises (a copy outside the pair's try block fails): the worker
\* logs it and falls back to the upscaled frames.
InterpolateRaise ==
    /\ pc = "interpolate_loop"
    /\ loop_i < upscaled_count
    /\ interpolated_dir' = "upscaled"
    /\ pc' = "after_interpolate"
    /\ UNCHANGED <<is_running, stop_called, enable_interpolate, resources_ok,
                   resource_checks, temp_dir, stage_dirs, upscaler,
                   interpolator, rife_loaded, frame_count, upscaled_count,
                   loop_i, stages, tools_invoked, progress_emitted,
                   finished_emitted, stop_observed, encoder_invoked,
                   output_written>>
    /\ final_fps' = output_fps
    /\ UNCHANGED <<preset, video_fps, output_fps, interp_source_fps,
                   turns_after_stop>>
    /\ UNCHANGED <<raised, pair_fallbacks>>

\* interpolate_frames has returned: upscaled/ is deleted.
InterpolateDone ==
    /\ pc = "interpolate_loop"
    /\ loop_i = upscaled_count
    /\ stage_dirs' = stage_dirs \ {"upscaled"}
    /\ pc' = "after_interpolate"
    /\ UNCHANGED <<is_running, stop_called, enable_interpolate, resources_ok,
                   resource_checks, temp_dir, upscaler, interpolator,
                   rife_loaded, frame_count, upscaled_count, loop_i,
                   interpolated_dir, stages, tools_invoked, progress_emitted,
                   finished_emitted, stop_observed, encoder_invoked,
                   output_written>>
    /\ final_fps' = interpolate_frames_fps(rife_loaded, upscaled_count, output_fps)
    /\ UNCHANGED <<preset, video_fps, output_fps, interp_source_fps,
                   turns_after_stop>>
    /\ UNCHANGED <<raised, pair_fallbacks>>

\* self.progress.emit(80, 100)
AfterInterpolate ==
    /\ pc = "after_interpolate"
    /\ progress_emitted' = Append(progress_emitted, 80)
    /\ pc' = "check_encode"
    /\ UNCHANGED <<is_running, stop_called, enable_interpolate, resources_ok,
                   resource_checks, temp_dir, stage_dirs, upscaler,
                   interpolator, rife_loaded, frame_count, upscaled_count,
                   loop_i, interpolated_dir, stages, tools_invoked,
                   finished_emitted, stop_observed, encoder_invoked,
                   output_written>>
    /\ UNCHANGED <<preset, video_fps, output_fps, interp_source_fps,
                   final_fps, turns_after_stop>>
    /\ UNCHANGED <<raised, pair_fallbacks>>

\* Faulty variant: the flag is not read before encoding.
CheckEncodeIgnoresStop ==
    /\ pc = "check_encode"
    /\ pc' = "encode"
    /\ UNCHANGED <<is_running, stop_called, enable_interpolate, resources_ok,
                   resource_checks, temp_dir, stage_dirs, upscaler,
                   interpolator, rife_loaded, frame_count, upscaled_count,
                   loop_i, interpolated_dir, stages, tools_invoked,
                   progress_emitted, finished_emitted, stop_observed,
                   encoder_invoked, output_written>>
    /\ UNCHANGED <<preset, video_fps, output_fps, interp_source_fps,
                   final_fps, turns_after_stop>>
    /\ UNCHANGED <<raised, pair_fallbacks>>

\* The check before encoding.
CheckEncode ==
    /\ pc = "check_encode"
    /\ \/ /\ ~is_running
          /\ ReturnSilently("encode")
       \/ /\ is_running
          /\ pc' = "encode"
          /\ UNCHANGED stop_observed
    /\ UNCHANGED <<is_running, stop_called, enable_interpolate, resources_ok,
                   resource_checks, temp_dir, stage_dirs, upscaler,
                   interpolator, rife_loaded, frame_count, upscaled_count,
                   loop_i, interpolated_dir, stages, tools_invoked,
                   progress_emitted, finished_emitted, encoder_invoked,
                   output_written>>
    /\ UNCHANGED <<preset, video_fps, output_fps, interp_source_fps,
                   final_fps, turns_after_stop>>
    /\ UNCHANGED <<raised, pair_fallbacks>>

\* encode_video runs ffmpeg on interpolated_dir; on success the worker emits
\* finished(True, "成功处理: ...").
Encode ==
    /\ pc = "encode"
    /\ stages' = Append(stages, "Encoding")
    /\ tools_invoked' = Append(tools_invoked, "ffmpeg encode")
    /\ encoder_invoked' = TRUE
    /\ \/ /\ Raise("RuntimeError", "Encoding failed: stderr")
          /\ UNCHANGED output_written
       \/ /\ output_written' = TRUE
          /\ finished_emitted' =
                Append(finished_emitted,
                       [success |-> TRUE, message |-> "output saved"])
          /\ pc' = "cleanup"
          /\ UNCHANGED raised
    /\ UNCHANGED <<is_running, stop_called, enable_interpolate, resources_ok,
                   resource_checks, temp_dir, stage_dirs, upscaler,
                   interpolator, rife_loaded, frame_count, upscaled_count,
                   loop_i, interpolated_dir, progress_emitted, stop_observed>>
    /\ UNCHANGED <<preset, video_fps, output_fps, interp_source_fps,
                   final_fps, turns_after_stop>>
    /\ UNCHANGED pair_fallbacks

\* Faulty variant: _cleanup releases the engines but leaves the temp directory.
CleanupKeepsTempDir ==
    /\ pc = "cleanup"
    /\ is_running' = FALSE
    /\ interpolator' = FALSE
    /\ upscaler' = FALSE
    /\ pc' = "done"
    /\ UNCHANGED <<stop_called, enable_interpolate, resources_ok,
                   resource_checks, temp_dir, stage_dirs, rife_loaded,
                   frame_count, upscaled_count, loop_i, interpolated_dir,
                   stages, tools_invoked, progress_emitted, finished_emitted,
                   stop_observed, encoder_invoked, output_written>>
    /\ UNCHANGED <<preset, video_fps, output_fps, interp_source_fps,
                   final_fps, turns_after_stop>>
    /\ UNCHANGED <<raised, pair_fallbacks>>

\* _cleanup, the finally clause of run(): the flag is cleared, the engines
\* are released and the temp directory is removed with all it holds.
Cleanup ==
    /\ pc = "cleanup"
    /\ is_running' = FALSE
    /\ interpolator' = FALSE
    /\ upscaler' = FALSE
    /\ temp_dir' = IF temp_dir = "exists" THEN "removed" ELSE temp_dir
    /\ stage_dirs' = {}
    /\ pc' = "done"
    /\ UNCHANGED <<stop_called, enable_interpolate, resources_ok,
                   resource_checks, rife_loaded, frame_count, upscaled_count,
                   loop_i, interpolated_dir, stages, tools_invoked,
                   progress_emitted, finished_emitted, stop_observed,
                   encoder_invoked, output_written>>
    /\ UNCHANGED <<preset, video_fps, output_fps, interp_source_fps,
                   final_fps, turns_after_stop>>
    /\ UNCHANGED <<raised, pair_fallbacks>>

(* ------------------ interpolation stage: frame loop ------------------- *)

VARIABLES
    ip_pc,          \* "start" | "loop" | "done"
    ip_entry,       \* "interpolate_frames" | "direct": the method called
    ip_engine,      \* "rife" (RIFEEngine.interpolate_video) | "simple"
    ip_target_arg,  \* the target_fps argument of a direct call, 0 for None
    ip_n,           \* number of input frames
    ip_source_fps,  \* source_fps
    ip_target_fps,  \* the target rate the engine works with
    ip_count,       \* interp_count / n_duplicates
    ip_i,           \* loop index
    ip_out,         \* the files written to output_dir, in index order
    ip_failed,      \* history: pairs whose interpolation raised
    ip_result       \* the (frames, fps) pair returned

ivars == <<ip_pc, ip_entry, ip_engine, ip_target_arg, ip_n, ip_source_fps,
           ip_target_fps, ip_count, ip_i, ip_out, ip_failed, ip_result>>

OrigFrame(i) == [kind |-> "orig", src |-> i, k |-> 0]
InterpFrame(i, k) == [kind |-> "interp", src |-> i, k |-> k]
CopyFrame(i, k) == [kind |-> "copy", src |-> i, k |-> k]

\* The frames one pair's inner loop saves: for j in range(interp_count).
PairFrames(i, count) == [j \in 1..count |-> InterpFrame(i, j)]

\* The duplicates the simple path writes after frame i:
\* for _ in range(n_duplicates).
Duplicates(i, count) == [j \in 1..count |-> CopyFrame(i, j)]

InterpIdle ==
    /\ ip_pc = "idle"
    /\ ip_entry = "none"
    /\ ip_engine = "none"
    /\ ip_target_arg = 0
    /\ ip_n = 0
    /\ ip_source_fps = 0
    /\ ip_target_fps = 0
    /\ ip_count = 0
    /\ ip_i = 0
    /\ ip_out = <<>>
    /\ ip_failed = 0
    /\ ip_result = [count |-> 0, fps |-> 0]

\* A call of InterpolatorEngine.interpolate_frames(input_dir, output_dir,
\* source_fps) on a directory of ip_n frames, which takes no target rate, or
\* a direct call of RIFEEngine.interpolate_video (target_fps optional) or of
\* _simple_interpolate (target_fps required).
InterpInit ==
    /\ ip_pc = "start"
    /\ ip_entry \in {"interpolate_frames", "direct"}
    /\ ip_engine \in {"rife", "simple"}
    /\ ip_target_arg \in
          IF ip_entry = "interpolate_frames" THEN {0}
          ELSE IF ip_engine = "rife" THEN {0} \cup TargetRates
          ELSE TargetRates
    /\ ip_n \in 0..MaxFrames
    /\ ip_source_fps \in SourceRates
    /\ ip_target_fps = 0
    /\ ip_count = 0
    /\ ip_i = 0
    /\ ip_out = <<>>
    /\ ip_failed = 0
    /\ ip_result = [count |-> 0, fps |-> 0]

\* interpolate_frames resolves the target rate and enters the engine, which
\* lists the input frames (none: return 0, source_fps) and computes how many
\* frames to insert.
IpStart ==
    /\ ip_pc = "start"
    /\ LET target_fps == IF ip_entry = "interpolate_frames"
                         THEN TARGET_FPS(ip_source_fps)
                         ELSE ip_target_arg
       IN  /\ ip_target_fps' = IF ip_engine = "rife"
                               THEN resolve_target(ip_source_fps, target_fps)
                               ELSE target_fps
           /\ \/ /\ ip_n = 0
                 /\ ip_result' = [count |-> 0, fps |-> ip_source_fps]
                 /\ ip_pc' = "done"
                 /\ UNCHANGED ip_count
              \/ /\ ip_n > 0
                 /\ ip_count' =
                       IF ip_engine = "rife"
                       THEN calculate_interpolation_frames(
                                ip_source_fps, target_fps).count
                       ELSE n_duplicates(ip_source_fps, target_fps)
                 /\ ip_pc' = "loop"
                 /\ UNCHANGED ip_result
    /\ UNCHANGED <<ip_entry, ip_engine, ip_target_arg, ip_n, ip_source_fps,
                   ip_i, ip_out, ip_failed>>

\* One turn of RIFEEngine.interpolate_video's loop: the frame is copied; if
\* it is not the last and interp_count > 0 the pair's frames are saved, or
\* the pair raises after `saved` of them and one copy of the frame is written.
RifeFrame ==
    /\ ip_pc = "loop"
    /\ ip_engine = "rife"
    /\ ip_i < ip_n
    /\ \/ /\ ip_i < ip_n - 1 /\ ip_count > 0
          /\ ip_out' = ip_out \o <<OrigFrame(ip_i)>> \o PairFrames(ip_i, ip_count)
          /\ UNCHANGED ip_failed
       \/ /\ ip_i < ip_n - 1 /\ ip_count > 0
          /\ \E saved \in 0..(ip_count - 1) :
                ip_out' = ip_out \o <<OrigFrame(ip_i)>>
                          \o PairFrames(ip_i, saved) \o <<CopyFrame(ip_i, 0)>>
          /\ ip_failed' = ip_failed + 1
       \/ /\ ~(ip_i < ip_n - 1 /\ ip_count > 0)
          /\ ip_out' = Append(ip_out, OrigFrame(ip_i))
          /\ UNCHANGED ip_failed
    /\ ip_i' = ip_i + 1
    /\ UNCHANGED <<ip_pc, ip_entry, ip_engine, ip_target_arg, ip_n,
                   ip_source_fps, ip_target_fps, ip_count, ip_result>>

\* One turn of _simple_interpolate's loop: the frame is copied, then copied
\* n_duplicates more times.
SimpleFrame ==
    /\ ip_pc = "loop"
    /\ ip_engine = "simple"
    /\ ip_i < ip_n
    /\ ip_out' = ip_out \o <<OrigFrame(ip_i)>> \o Duplicates(ip_i, ip_count)
    /\ ip_i' = ip_i + 1
    /\ UNCHANGED <<ip_pc, ip_entry, ip_engine, ip_target_arg, ip_n,
                   ip_source_fps, ip_target_fps, ip_count, ip_failed,
                   ip_result>>

\* return output_idx, actual_target_fps   (rife)
\* return output_idx, target_fps          (simple)
IpReturn ==
    /\ ip_pc = "loop"
    /\ ip_i = ip_n
    /\ ip_result' =
          [count |-> Len(ip_out),
           fps |-> IF ip_engine = "rife"
                   THEN calculate_interpolation_frames(
                            ip_source_fps, ip_target_fps).fps
                   ELSE ip_target_fps]
    /\ ip_pc' = "done"
    /\ UNCHANGED <<ip_entry, ip_engine, ip_target_arg, ip_n, ip_source_fps,
                   ip_target_fps, ip_count, ip_i, ip_out, ip_failed>>

(* ----------------------- upscaler: one batch -------------------------- *)
\* UpscalerEngine.upscale_batch on a directory of frames, with the enhance
\* capability free to run out of memory or to fail on any frame.

VARIABLES
    up_pc,          \* "start" | "loop" | "done"
    tile_size,      \* UpscalerEngine.tile_size
    up_input,       \* the names of the image files in input_dir
    image_files,    \* upscale_batch's sorted list
    up_i,           \* upscale_batch's loop index i
    up_success,     \* upscale_batch's success counter
    up_output,      \* the names of the files written to output_dir
    up_log,         \* history: one record per loop turn
    up_callbacks,   \* history: the progress_callback(current, total) calls
    up_result,      \* the (success, total) pair returned
    up_preset,      \* UpscalerEngine.preset
    up_scale,       \* UpscalerEngine.scale, the outscale given to enhance
    up_frame_size   \* environment: the resolution class of the input frames

uvars == <<up_pc, tile_size, up_input, image_files, up_i, up_success,
           up_output, up_log, up_callbacks, up_result, up_preset, up_scale,
           up_frame_size>>

\* UpscalerEngine.PRESETS[preset]["scale"]
PRESETS_scale(name) ==
    CASE name = "fast" -> 2
      [] name = "standard" -> 4
      [] name = "high" -> 4

\* config.presets.PRESETS[level].scale_factor, which ProcessingOptions
\* copies.
preset_scale_factor(name) ==
    CASE name = "fast" -> 2
      [] name = "standard" -> 2
      [] name = "high" -> 4

\* The keys of settings.VRAM_CONFIG['tile_sizes'].
FrameSizes == {"720p", "1080p", "4k"}

\* settings.VRAM_CONFIG['tile_sizes'][size]
VRAM_CONFIG_tile_sizes(size) ==
    CASE size = "720p" -> 256
      [] size = "1080p" -> 128
      [] size = "4k" -> 64

\* UpscalerEngine.PRESETS[preset]["tile"]
PRESETS_tile(name) ==
    CASE name = "fast" -> 512
      [] name = "standard" -> 512
      [] name = "high" -> 256

\* What the accelerator allows for one frame: the largest tile size at which
\* enhance does not run out of memory (0: it always does).
Fits == {0, 64, 128, 256, 512}

\* The frames of the environment: unreadable (cv2.imread gives None), or
\* readable with a largest fitting tile size.
FrameKinds ==
    {[readable |-> FALSE, fit |-> 0]}
    \cup {[readable |-> TRUE, fit |-> f] : f \in Fits}

\* sorted(names), ascending.
RECURSIVE sorted(_)
sorted(S) ==
    IF S = {} THEN <<>>
    ELSE LET least == CHOOSE x \in S : \A y \in S : x <= y
         IN  <<least>> \o sorted(S \ {least})

\* Faulty variant: the directory listing is taken in descending order.
RECURSIVE listed_descending(_)
listed_descending(S) ==
    IF S = {} THEN <<>>
    ELSE LET greatest == CHOOSE x \in S : \A y \in S : x >= y
         IN  <<greatest>> \o listed_descending(S \ {greatest})

\* image_files = sorted(image_files)
list_image_files(S) == sorted(S)

\* Faulty variant: the tile size is halved with no floor.
reduce_tile_size_no_floor(tile) == tile \div 2

\* _reduce_tile_size: if tile_size > 64: tile_size = max(64, tile_size // 2)
reduce_tile_size(tile) ==
    IF tile > 64
    THEN (IF tile \div 2 > 64 THEN tile \div 2 ELSE 64)
    ELSE tile

\* upscale_image on one frame: imread, enhance at the current tile size; on
\* "out of memory" _reduce_tile_size and enhance once more, whose exception
\* is not caught.  The tile sizes tried, the tile size left, the outcome.
upscale_image(tile, frame) ==
    IF ~frame.readable
    THEN [tiles |-> <<>>, tile_after |-> tile, outcome |-> "error"]
    ELSE IF tile <= frame.fit
    THEN [tiles |-> <<tile>>, tile_after |-> tile, outcome |-> "written"]
    ELSE LET retry == reduce_tile_size(tile)
         IN  [tiles |-> <<tile, retry>>,
              tile_after |-> retry,
              outcome |-> IF retry <= frame.fit THEN "written" ELSE "oom"]

\* Faulty variant: the callback is given the zero-based index.
progress_call_zero_based(i, total) == [current |-> i, total |-> total]

\* progress_callback(i + 1, total)
progress_call(i, total) == [current |-> i + 1, total |-> total]

UpscaleIdle ==
    /\ up_pc = "idle"
    /\ tile_size = 0
    /\ up_input = {}
    /\ image_files = <<>>
    /\ up_i = 0
    /\ up_success = 0
    /\ up_output = {}
    /\ up_log = <<>>
    /\ up_callbacks = <<>>
    /\ up_result = [success |-> 0, total |-> 0]
    /\ up_preset = "none"
    /\ up_scale = 0
    /\ up_frame_size = "none"

\* UpscalerEngine(preset=...) has been constructed and upscale_batch is
\* called on a directory holding the files up_input, output_dir being empty.
UpscalerEngineInit ==
    /\ up_pc = "start"
    /\ up_preset \in Presets
    /\ tile_size = PRESETS_tile(up_preset)
    /\ up_scale = PRESETS_scale(up_preset)
    /\ up_frame_size \in FrameSizes
    /\ up_input \in SUBSET (1..MaxFrames)
    /\ image_files = <<>>
    /\ up_i = 0
    /\ up_success = 0
    /\ up_output = {}
    /\ up_log = <<>>
    /\ up_callbacks = <<>>
    /\ up_result = [success |-> 0, total |-> 0]

\* upscale_batch up to its loop: the files are listed and sorted, success is
\* 0, output_dir is created.
upscale_batch_enter ==
    /\ up_pc = "start"
    /\ image_files' = list_image_files(up_input)
    /\ up_success' = 0
    /\ up_i' = 0
    /\ up_pc' = "loop"
    /\ UNCHANGED <<tile_size, up_input, up_output, up_log, up_callbacks,
                   up_result, up_preset, up_scale, up_frame_size>>

\* One turn of upscale_batch's loop: upscale_image on image_files[i] writes
\* output_dir/name and success grows, or its exception is logged; then
\* progress_callback(i + 1, total).
upscale_batch_turn ==
    /\ up_pc = "loop"
    /\ up_i < Len(image_files)
    /\ \E frame \in FrameKinds :
          LET name == image_files[up_i + 1]
              r == upscale_image(tile_size, frame)
          IN  /\ tile_size' = r.tile_after
              /\ up_output' = IF r.outcome = "written"
                              THEN up_output \cup {name} ELSE up_output
              /\ up_success' = IF r.outcome = "written"
                               THEN up_success + 1 ELSE up_success
              /\ up_log' = Append(up_log,
                                  [name |-> name,
                                   tile_before |-> tile_size,
                                   frame |-> frame,
                                   tiles |-> r.tiles,
                                   outcome |-> r.outcome])
    /\ up_callbacks' =
          Append(up_callbacks, progress_call(up_i, Len(image_files)))
    /\ up_i' = up_i + 1
    /\ UNCHANGED <<up_pc, up_input, image_files, up_result, up_preset,
                   up_scale, up_frame_size>>

\* return success, total
upscale_batch_return ==
    /\ up_pc = "loop"
    /\ up_i = Len(image_files)
    /\ up_result' = [success |-> up_success, total |-> Len(image_files)]
    /\ up_pc' = "done"
    /\ UNCHANGED <<tile_size, up_input, image_files, up_i, up_success,
                   up_output, up_log, up_callbacks, up_preset, up_scale,
                   up_frame_size>>

(* ---------------------------- encoder -------------------------------- *)
\* VideoEngine.encode_video: the codec arguments of the command it builds
\* and the outcome of the media tool.  Arguments are held as strings.

VARIABLES
    en_pc,       \* "start" | "built" | "done"
    en_codec,    \* the codec argument
    en_options,  \* the preset the ProcessingOptions were built from, or "none"
    en_audio,    \* audio_source is given and exists
    en_fps,      \* the fps argument, in hundredths
    en_params,   \* the codec arguments put on the command line
    en_result    \* "none" | "returned" | "raised"

evars == <<en_pc, en_codec, en_options, en_audio, en_fps, en_params,
           en_result>>

\* The codec names tried.
Codecs == {"h264_nvenc", "hevc_nvenc", "libx264", "libx265"}

\* "nvenc" in codec, for the names of Codecs.
nvenc_in(codec) == codec \in {"h264_nvenc", "hevc_nvenc"}

\* PRESETS[level].encoder_preset
encoder_preset(name) ==
    CASE name = "fast" -> "fast"
      [] name = "standard" -> "medium"
      [] name = "high" -> "slow"

\* str(PRESETS[level].encoder_quality)
encoder_quality(name) ==
    CASE name = "fast" -> "23"
      [] name = "standard" -> "20"
      [] name = "high" -> "18"

\* nvenc_preset_map.get(self.encoder_preset, "p4")
nvenc_preset_map(encoder_preset_name) ==
    CASE encoder_preset_name = "fast" -> "p1"
      [] encoder_preset_name = "medium" -> "p4"
      [] encoder_preset_name = "slow" -> "p7"
      [] OTHER -> "p4"

\* Faulty variant: every codec is given the constant-quality parameter next
\* to its own.
get_encoder_params_with_cq(name, codec) ==
    <<"-c:v", codec, "-crf", encoder_quality(name),
      "-preset", encoder_preset(name), "-cq", encoder_quality(name),
      "-pix_fmt", "yuv420p">>

\* ProcessingOptions.get_encoder_params(codec) of the options of a preset.
get_encoder_params(name, codec) ==
    IF nvenc_in(codec)
    THEN <<"-c:v", codec, "-preset", nvenc_preset_map(encoder_preset(name)),
           "-cq", encoder_quality(name), "-pix_fmt", "yuv420p">>
    ELSE <<"-c:v", codec, "-crf", encoder_quality(name),
           "-preset", encoder_preset(name), "-pix_fmt", "yuv420p">>

\* encode_video's own arguments when no options are given.
default_encoder_params(codec) ==
    IF nvenc_in(codec)
    THEN <<"-c:v", codec, "-preset", "p4", "-cq", "18",
           "-pix_fmt", "yuv420p">>
    ELSE <<"-c:v", codec, "-crf", "18", "-preset", "medium",
           "-pix_fmt", "yuv420p">>

EncodeIdle ==
    /\ en_pc = "idle"
    /\ en_codec = "none"
    /\ en_options = "none"
    /\ en_audio = FALSE
    /\ en_fps = 0
    /\ en_params = <<>>
    /\ en_result = "none"

\* A call encode_video(frames_dir, output_path, fps, audio_source, options,
\* codec).
EncodeInit ==
    /\ en_pc = "start"
    /\ en_codec \in Codecs
    /\ en_options \in Presets \cup {"none"}
    /\ en_audio \in BOOLEAN
    /\ en_fps \in VideoRates
    /\ en_params = <<>>
    /\ en_result = "none"

\* encode_video builds the command: input, audio, then the codec arguments
\* of the options if there are options, its defaults if not.
encode_build ==
    /\ en_pc = "start"
    /\ en_params' = IF en_options # "none"
                    THEN get_encoder_params(en_options, en_codec)
                    ELSE default_encoder_params(en_codec)
    /\ en_pc' = "built"
    /\ UNCHANGED <<en_codec, en_options, en_audio, en_fps, en_result>>

\* subprocess.run(cmd): a non-zero status raises RuntimeError, otherwise the
\* output path is returned.
encode_run ==
    /\ en_pc = "built"
    /\ en_result' \in {"returned", "raised"}
    /\ en_pc' = "done"
    /\ UNCHANGED <<en_codec, en_options, en_audio, en_fps, en_params>>

(* ----------------------- accelerator memory -------------------------- *)
\* check_vram_compatibility, as the preset selector calls it.  Memory sizes
\* are held in tenths of a gigabyte.

VARIABLES
    vr_pc,         \* "start" | "done"
    vr_available,  \* available_vram_gb
    vr_level,      \* preset_level
    vr_result      \* the (compatible, message) pair returned

vvars == <<vr_pc, vr_available, vr_level, vr_result>>

\* PRESETS[level].vram_required_gb
vram_required_gb(name) ==
    CASE name = "fast" -> 20
      [] name = "standard" -> 40
      [] name = "high" -> 60

\* The float product required * 0.8 lies above the decimal it stands for:
\* 6.0 * 0.8 is 4.800000000000001, 2.0 * 0.8 is 1.6 and 4.0 * 0.8 is 3.2.
product_rounds_up(required) == required = 60

\* Faulty variant: the warning band begins at half of the requirement.
at_least_80_percent_is_half(available, required) ==
    available * 10 >= required * 5

\* available_vram_gb >= config.vram_required_gb * 0.8, in floats.
at_least_80_percent(available, required) ==
    \/ available * 10 > required * 8
    \/ available * 10 = required * 8 /\ ~product_rounds_up(required)

\* check_vram_compatibility(available_vram_gb, preset_level)
check_vram_compatibility(available, name) ==
    IF available >= vram_required_gb(name)
    THEN [compatible |-> TRUE, message |-> "sufficient"]
    ELSE IF at_least_80_percent(available, vram_required_gb(name))
    THEN [compatible |-> TRUE, message |-> "tight"]
    ELSE [compatible |-> FALSE, message |-> "insufficient"]

VramIdle ==
    /\ vr_pc = "idle"
    /\ vr_available = 0
    /\ vr_level = "none"
    /\ vr_result = [compatible |-> FALSE, message |-> "none"]

\* The preset selector knows the available memory (above 0) and the preset.
VramInit ==
    /\ vr_pc = "start"
    /\ vr_available \in 1..MaxVram
    /\ vr_level \in Presets
    /\ vr_result = [compatible |-> FALSE, message |-> "none"]

\* update_vram_status calls check_vram_compatibility.
update_vram_status ==
    /\ vr_pc = "start"
    /\ vr_result' = check_vram_compatibility(vr_available, vr_level)
    /\ vr_pc' = "done"
    /\ UNCHANGED <<vr_available, vr_level>>

(* --------------------------- frame buffer ---------------------------- *)
\* FrameBuffer shared by producer threads calling put and consumer threads
\* calling get.  One step is what a thread does without another thread
\* running in between: the test of the length, or the list operation.

VARIABLES
    fb_max_size,   \* FrameBuffer.max_size
    fb_buffer,     \* FrameBuffer.buffer
    fb_put,        \* per producer: "idle", or "append" after the length test
    fb_frame,      \* per producer: the frame its put was called with
    fb_get,        \* per consumer: "idle", or "pop" after the emptiness test
    fb_next,       \* the frames are numbered in the order of the put calls
    fb_appended,   \* history: the frames in the order they entered the buffer
    fb_got,        \* history: the frames returned by get, in order
    fb_raised      \* history: a pop(0) raised IndexError

bvars == <<fb_max_size, fb_buffer, fb_put, fb_frame, fb_get, fb_next,
           fb_appended, fb_got, fb_raised>>

\* The threads.
Producers == 1..NumProducers
Consumers == 1..NumConsumers

BufferIdle ==
    /\ fb_max_size = 0
    /\ fb_buffer = <<>>
    /\ fb_put = <<>>
    /\ fb_frame = <<>>
    /\ fb_get = <<>>
    /\ fb_next = 0
    /\ fb_appended = <<>>
    /\ fb_got = <<>>
    /\ fb_raised = FALSE

\* FrameBuffer(max_size): the buffer is empty.
FrameBufferInit ==
    /\ fb_max_size \in 1..MaxBufferSize
    /\ fb_buffer = <<>>
    /\ fb_put = [p \in Producers |-> "idle"]
    /\ fb_frame = [p \in Producers |-> 0]
    /\ fb_get = [c \in Consumers |-> "idle"]
    /\ fb_next = 1
    /\ fb_appended = <<>>
    /\ fb_got = <<>>
    /\ fb_raised = FALSE

\* put(frame), the loop test: while len(self.buffer) >= self.max_size the
\* thread sleeps; it leaves the loop when it sees room.
put_test(p) ==
    /\ fb_put[p] = "idle"
    /\ fb_next <= MaxPut
    /\ Len(fb_buffer) < fb_max_size
    /\ fb_frame' = [fb_frame EXCEPT ![p] = fb_next]
    /\ fb_next' = fb_next + 1
    /\ fb_put' = [fb_put EXCEPT ![p] = "append"]
    /\ UNCHANGED <<fb_max_size, fb_buffer, fb_get, fb_appended, fb_got,
                   fb_raised>>

\* put(frame), after the loop: self.buffer.append(frame).
put_append(p) ==
    /\ fb_put[p] = "append"
    /\ fb_buffer' = Append(fb_buffer, fb_frame[p])
    /\ fb_appended' = Append(fb_appended, fb_frame[p])
    /\ fb_put' = [fb_put EXCEPT ![p] = "idle"]
    /\ UNCHANGED <<fb_max_size, fb_frame, fb_get, fb_next, fb_got, fb_raised>>

\* get(), the test: if self.buffer (an empty buffer returns None).
get_test(c) ==
    /\ fb_get[c] = "idle"
    /\ fb_buffer # <<>>
    /\ fb_get' = [fb_get EXCEPT ![c] = "pop"]
    /\ UNCHANGED <<fb_max_size, fb_buffer, fb_put, fb_frame, fb_next,
                   fb_appended, fb_got, fb_raised>>

\* get(), after the test: return self.buffer.pop(0), which raises
\* IndexError on a list emptied in between.
get_pop(c) ==
    /\ fb_get[c] = "pop"
    /\ IF fb_buffer = <<>>
       THEN /\ fb_raised' = TRUE
            /\ UNCHANGED <<fb_buffer, fb_got>>
       ELSE /\ fb_got' = Append(fb_got, Head(fb_buffer))
            /\ fb_buffer' = Tail(fb_buffer)
            /\ UNCHANGED fb_raised
    /\ fb_get' = [fb_get EXCEPT ![c] = "idle"]
    /\ UNCHANGED <<fb_max_size, fb_put, fb_frame, fb_next, fb_appended>>

(* ---------------------------- task queue ----------------------------- *)
\* TaskQueueWidget and the VideoWorker threads it starts.  The queue's
\* methods run on the UI thread, one at a time; a worker's signals reach the
\* queue through the event loop, in the order they were emitted.
\* Task statuses: "pending" 等待中, "processing" 处理中, "paused" 暂停,
\* "completed" 完成, "failed" 失败.

VARIABLES
    tasks,           \* self.tasks: file_path -> TaskInfo (status, progress)
    pending_tasks,   \* self.pending_tasks
    failed_tasks,    \* self.failed_tasks
    completed_tasks, \* self.completed_tasks
    current_worker,  \* self.current_worker: a worker's index, 0 for None
    is_processing,   \* self.is_processing
    is_paused,       \* self.is_paused
    workers,         \* every VideoWorker created so far, by index
    channel,         \* signals emitted by workers, not yet delivered
    all_finished,    \* history: emissions of all_finished
    btn_start,       \* MainWindow: 开始处理 is enabled (and 暂停 is not)
    saved_tasks,     \* the state file: file_path -> status, as last saved
    zero_division    \* history: _on_progress raised ZeroDivisionError

qvars == <<tasks, pending_tasks, failed_tasks, completed_tasks,
           current_worker, is_processing, is_paused, workers, channel,
           all_finished, btn_start, saved_tasks, zero_division>>

\* The largest number of status and progress signals one worker emits.
MaxStatus == 1

\* The values a worker emits on its progress signal, out of 100; 10 is the
\* one after extraction.
ProgressValues == {10}

\* The texts a worker's _process emits on its status signal, "stage text"
\* standing for 初始化..., 分析视频..., 提取视频帧... and the others.
StatusTexts == {"stage text"}

\* The video files the user may add.
Paths == {"a.mp4", "b.mp4"}

\* list.remove(x): the first occurrence is removed.
RECURSIVE Remove(_, _)
Remove(seq, x) ==
    IF seq = <<>> THEN <<>>
    ELSE IF Head(seq) = x THEN Tail(seq)
    ELSE <<Head(seq)>> \o Remove(Tail(seq), x)

\* x in list
Contains(seq, x) == \E k \in 1..Len(seq) : seq[k] = x

\* if x in list: list.remove(x)
RemoveIfIn(seq, x) == IF Contains(seq, x) THEN Remove(seq, x) ELSE seq

\* del self.tasks[file_path]
DeleteKey(f, key) == [x \in (DOMAIN f) \ {key} |-> f[x]]

\* set_task_status: only for a path that is a key of tasks.
SetStatus(f, path, status) ==
    IF path \in DOMAIN f
    THEN [f EXCEPT ![path] = [@ EXCEPT !.status = status]]
    ELSE f

\* _on_status(file_path, status), the slot of a worker's status signal, on
\* the task table f.
on_status(f, path, status, paused) ==
    SetStatus(f, path, IF paused THEN "paused" ELSE status)

\* update_progress(file_path, int(current / total * 100)), on the task
\* table f; the worker's total is always 100.
update_progress(f, path, current) ==
    IF path \in DOMAIN f
    THEN [f EXCEPT ![path] = [@ EXCEPT !.progress = current]]
    ELSE f

\* save_state(): what the state file holds of the task table f.
save_state(f) == [x \in DOMAIN f |-> f[x].status]

\* VideoWorker.stop() on the worker with index w.
Stopped(ws, w) == [ws EXCEPT ![w] = [@ EXCEPT !.is_running = FALSE]]

\* The workers that are inside _process().
Executing == {w \in 1..Len(workers) : workers[w].phase = "running"}

QueueIdle ==
    /\ tasks = <<>>
    /\ pending_tasks = <<>>
    /\ failed_tasks = <<>>
    /\ completed_tasks = <<>>
    /\ current_worker = 0
    /\ is_processing = FALSE
    /\ is_paused = FALSE
    /\ workers = <<>>
    /\ channel = <<>>
    /\ all_finished = 0
    /\ btn_start = TRUE
    /\ saved_tasks = <<>>
    /\ zero_division = FALSE

\* TaskQueueWidget.__init__ with no saved state to restore.
QueueInit == QueueIdle

\* add_task(file_path): a path already queued is refused.
add_task(path) ==
    /\ path \notin DOMAIN tasks
    /\ tasks' = [x \in (DOMAIN tasks) \cup {path} |->
                    IF x = path THEN [status |-> "pending", progress |-> 0]
                    ELSE tasks[x]]
    /\ pending_tasks' = Append(pending_tasks, path)
    /\ UNCHANGED <<failed_tasks, completed_tasks, current_worker,
                   is_processing, is_paused, workers, channel, all_finished,
                   btn_start, saved_tasks,
                   zero_division>>

\* Faulty variant: _process_next starts the next task although the queue is
\* paused.
process_next_ignores_pause(tasks1, pending1, worker1, paused1, processing1) ==
    IF pending1 = <<>>
    THEN /\ tasks' = tasks1
         /\ current_worker' = worker1
         /\ is_processing' = FALSE
         /\ all_finished' = all_finished + 1
         /\ UNCHANGED workers
    ELSE /\ Len(workers) < MaxWorkers
         /\ tasks' = SetStatus(tasks1, pending1[1], "processing")
         /\ workers' = Append(workers, [input_path |-> pending1[1],
                                        is_running |-> TRUE,
                                        phase |-> "running",
                                        statuses |-> 0])
         /\ current_worker' = Len(workers) + 1
         /\ is_processing' = processing1
         /\ UNCHANGED all_finished

\* Faulty variant: _process_next takes the task added last.
process_next_lifo(tasks1, pending1, worker1, paused1, processing1) ==
    IF paused1
    THEN /\ tasks' = tasks1
         /\ current_worker' = worker1
         /\ is_processing' = processing1
         /\ UNCHANGED <<workers, all_finished>>
    ELSE IF pending1 = <<>>
    THEN /\ tasks' = tasks1
         /\ current_worker' = worker1
         /\ is_processing' = FALSE
         /\ all_finished' = all_finished + 1
         /\ UNCHANGED workers
    ELSE /\ Len(workers) < MaxWorkers
         /\ tasks' = SetStatus(tasks1, pending1[Len(pending1)], "processing")
         /\ workers' = Append(workers, [input_path |-> pending1[Len(pending1)],
                                        is_running |-> TRUE,
                                        phase |-> "running",
                                        statuses |-> 0])
         /\ current_worker' = Len(workers) + 1
         /\ is_processing' = processing1
         /\ UNCHANGED all_finished

\* _process_next(), entered with the given task table and pending list:
\* nothing when paused; all_finished when nothing is pending; else a new
\* VideoWorker for pending_tasks[0] replaces current_worker and is started.
process_next(tasks1, pending1, worker1, paused1, processing1) ==
    IF paused1
    THEN /\ tasks' = tasks1
         /\ current_worker' = worker1
         /\ is_processing' = processing1
         /\ UNCHANGED <<workers, all_finished>>
    ELSE IF pending1 = <<>>
    THEN /\ tasks' = tasks1
         /\ current_worker' = worker1
         /\ is_processing' = FALSE
         /\ all_finished' = all_finished + 1
         /\ UNCHANGED workers
    ELSE /\ Len(workers) < MaxWorkers
         /\ tasks' = SetStatus(tasks1, pending1[1], "processing")
         /\ workers' = Append(workers, [input_path |-> pending1[1],
                                        is_running |-> TRUE,
                                        phase |-> "running",
                                        statuses |-> 0])
         /\ current_worker' = Len(workers) + 1
         /\ is_processing' = processing1
         /\ UNCHANGED all_finished

\* start_processing(): returns at once when nothing is pending; otherwise
\* is_processing = True, is_paused = False, _process_next().
start_processing ==
    IF pending_tasks = <<>>
    THEN UNCHANGED <<tasks, current_worker, is_processing, is_paused,
                     workers, all_finished>>
    ELSE /\ is_paused' = FALSE
         /\ process_next(tasks, pending_tasks, current_worker, FALSE, TRUE)

\* pause_processing(): is_paused = True and, if there is a current worker,
\* current_worker.stop(), whose status signal, emitted on the UI thread,
\* runs _on_status at once.
pause_processing ==
    /\ is_paused' = TRUE
    /\ workers' = IF current_worker # 0
                  THEN Stopped(workers, current_worker) ELSE workers
    /\ tasks' = IF current_worker # 0
                THEN on_status(tasks, workers[current_worker].input_path,
                               "stopping", TRUE)
                ELSE tasks

\* MainWindow.on_start, the slot of the start button: refused with a warning
\* when the list is empty; else the start button is disabled, the pause
\* button enabled, and the queue told to start.
on_start ==
    /\ btn_start
    /\ tasks # <<>>
    /\ btn_start' = FALSE
    /\ start_processing
    /\ UNCHANGED <<pending_tasks, failed_tasks, completed_tasks, channel,
                   saved_tasks, zero_division>>

\* MainWindow.on_pause, the slot of the pause button: the queue is told to
\* pause, the start button is enabled and the pause button disabled.
on_pause ==
    /\ ~btn_start
    /\ pause_processing
    /\ btn_start' = TRUE
    /\ UNCHANGED <<pending_tasks, failed_tasks, completed_tasks,
                   current_worker, is_processing, channel, all_finished,
                   saved_tasks, zero_division>>

\* remove_task(file_path): the current worker is stopped and forgotten if it
\* is processing this path (the status its stop() sets is on the task that
\* is deleted); the path leaves every list and the task table; save_state().
remove_task(path) ==
    /\ path \in DOMAIN tasks
    /\ LET mine == current_worker # 0
                   /\ workers[current_worker].input_path = path
       IN  /\ workers' = IF mine THEN Stopped(workers, current_worker)
                         ELSE workers
           /\ current_worker' = IF mine THEN 0 ELSE current_worker
    /\ pending_tasks' = RemoveIfIn(pending_tasks, path)
    /\ failed_tasks' = RemoveIfIn(failed_tasks, path)
    /\ completed_tasks' = RemoveIfIn(completed_tasks, path)
    /\ tasks' = DeleteKey(tasks, path)
    /\ saved_tasks' = save_state(tasks')
    /\ UNCHANGED <<is_processing, is_paused, channel, all_finished,
                   btn_start, zero_division>>

\* clear_all_tasks(): the current worker is stopped and forgotten, every list
\* and the task table are emptied; save_state().
clear_all_tasks ==
    /\ tasks # <<>> \/ current_worker # 0 \/ is_processing
    /\ workers' = IF current_worker # 0
                  THEN Stopped(workers, current_worker) ELSE workers
    /\ current_worker' = 0
    /\ is_processing' = FALSE
    /\ pending_tasks' = <<>>
    /\ failed_tasks' = <<>>
    /\ completed_tasks' = <<>>
    /\ tasks' = <<>>
    /\ saved_tasks' = save_state(tasks')
    /\ UNCHANGED <<is_paused, channel, all_finished, btn_start,
                   zero_division>>

\* retry_selected_task() with the item of `path` selected: a failed task goes
\* back to pending.
retry_selected_task(path) ==
    /\ path \in DOMAIN tasks
    /\ tasks[path].status = "failed"
    /\ tasks' = [tasks EXCEPT ![path] = [status |-> "pending", progress |-> 0]]
    /\ pending_tasks' = IF Contains(pending_tasks, path) THEN pending_tasks
                        ELSE Append(pending_tasks, path)
    /\ failed_tasks' = RemoveIfIn(failed_tasks, path)
    /\ UNCHANGED <<completed_tasks, current_worker, is_processing, is_paused,
                   workers, channel, all_finished, btn_start, saved_tasks,
                   zero_division>>

\* _on_finished(file_path, success, message), the slot of a worker's
\* finished signal.  An all_finished it emits reaches
\* MainWindow.on_all_finished at once, which enables the start button.
\* save_state() runs before _process_next().
on_finished(path, success) ==
    LET pending1 == RemoveIfIn(pending_tasks, path)
        tasks1 == SetStatus(tasks, path,
                            IF success THEN "completed" ELSE "failed")
    IN  /\ pending_tasks' = pending1
        /\ completed_tasks' =
              IF path \in DOMAIN tasks /\ success
              THEN Append(completed_tasks, path) ELSE completed_tasks
        /\ failed_tasks' =
              IF path \in DOMAIN tasks /\ ~success
              THEN Append(failed_tasks, path) ELSE failed_tasks
        /\ saved_tasks' = save_state(tasks1)
        /\ process_next(tasks1, pending1, 0, is_paused, is_processing)
        /\ btn_start' = IF all_finished' # all_finished THEN TRUE
                         ELSE btn_start
        /\ UNCHANGED <<is_paused, zero_division>>

\* _on_progress(file_path, current, total), the slot of a worker's progress
\* signal: update_progress, then the total progress
\* int((completed + current / total) / len(self.tasks) * 100), which raises
\* ZeroDivisionError when the task table is empty.
on_progress(path, current) ==
    /\ tasks' = update_progress(tasks, path, current)
    /\ zero_division' = (zero_division \/ Cardinality(DOMAIN tasks) = 0)
    /\ UNCHANGED <<pending_tasks, failed_tasks, completed_tasks,
                   current_worker, is_processing, is_paused, workers,
                   all_finished, btn_start, saved_tasks>>

\* The event loop delivers the oldest signal to its slot.
Deliver ==
    /\ channel # <<>>
    /\ channel' = Tail(channel)
    /\ IF Head(channel).kind = "finished"
       THEN on_finished(Head(channel).path, Head(channel).success)
       ELSE IF Head(channel).kind = "progress"
       THEN on_progress(Head(channel).path, Head(channel).current)
       ELSE /\ tasks' = on_status(tasks, Head(channel).path,
                                  Head(channel).status, is_paused)
            /\ UNCHANGED <<pending_tasks, failed_tasks, completed_tasks,
                           current_worker, is_processing, is_paused, workers,
                           all_finished, btn_start, saved_tasks,
                           zero_division>>

\* A worker's _process() emits a stage text on its status signal.
WorkerStatus(w) ==
    /\ workers[w].phase = "running"
    /\ workers[w].statuses < MaxStatus
    /\ \E text \in StatusTexts :
          channel' = Append(channel, [kind |-> "status",
                                      path |-> workers[w].input_path,
                                      success |-> FALSE,
                                      status |-> text,
                                      current |-> 0])
    /\ workers' = [workers EXCEPT ![w] = [@ EXCEPT !.statuses = @ + 1]]
    /\ UNCHANGED <<tasks, pending_tasks, failed_tasks, completed_tasks,
                   current_worker, is_processing, is_paused, all_finished,
                   btn_start, saved_tasks,
                   zero_division>>

\* A worker's _process() emits progress(current, 100).
WorkerProgress(w) ==
    /\ workers[w].phase = "running"
    /\ workers[w].statuses < MaxStatus
    /\ \E current \in ProgressValues :
          channel' = Append(channel, [kind |-> "progress",
                                      path |-> workers[w].input_path,
                                      success |-> FALSE,
                                      status |-> "",
                                      current |-> current])
    /\ workers' = [workers EXCEPT ![w] = [@ EXCEPT !.statuses = @ + 1]]
    /\ UNCHANGED <<tasks, pending_tasks, failed_tasks, completed_tasks,
                   current_worker, is_processing, is_paused, all_finished,
                   btn_start, saved_tasks, zero_division>>

\* A worker's _process() ends with finished(True, ...) or raises, and run()
\* emits finished(False, ...); _cleanup is still to come.
WorkerFinish(w) ==
    /\ workers[w].phase = "running"
    /\ \E success \in BOOLEAN :
          channel' = Append(channel, [kind |-> "finished",
                                      path |-> workers[w].input_path,
                                      success |-> success,
                                      status |-> "",
                                      current |-> 0])
    /\ workers' = [workers EXCEPT ![w] = [@ EXCEPT !.phase = "cleanup"]]
    /\ UNCHANGED <<tasks, pending_tasks, failed_tasks, completed_tasks,
                   current_worker, is_processing, is_paused, all_finished,
                   btn_start, saved_tasks,
                   zero_division>>

\* A worker's _process() sees the cleared flag at a checked boundary and
\* returns: nothing is emitted.
WorkerReturn(w) ==
    /\ workers[w].phase = "running"
    /\ ~workers[w].is_running
    /\ workers' = [workers EXCEPT ![w] = [@ EXCEPT !.phase = "cleanup"]]
    /\ UNCHANGED <<tasks, pending_tasks, failed_tasks, completed_tasks,
                   current_worker, is_processing, is_paused, channel,
                   all_finished, btn_start, saved_tasks,
                   zero_division>>

\* A worker's _cleanup(), after which run() has returned.
WorkerCleanup(w) ==
    /\ workers[w].phase = "cleanup"
    /\ workers' = [workers EXCEPT ![w] = [@ EXCEPT !.is_running = FALSE,
                                                   !.phase = "done"]]
    /\ UNCHANGED <<tasks, pending_tasks, failed_tasks, completed_tasks,
                   current_worker, is_processing, is_paused, channel,
                   all_finished, btn_start, saved_tasks,
                   zero_division>>

(* -------------------------- specifications ---------------------------- *)

vars == <<wvars, ivars, qvars, uvars, evars, vvars, bvars>>

\* A worker that is not part of the behaviour.
WorkerIdle ==
    /\ pc = "idle"
    /\ is_running = FALSE
    /\ stop_called = FALSE
    /\ enable_interpolate = FALSE
    /\ resources_ok = TRUE
    /\ resource_checks = 0
    /\ temp_dir = "none"
    /\ stage_dirs = {}
    /\ upscaler = FALSE
    /\ interpolator = FALSE
    /\ rife_loaded = FALSE
    /\ frame_count = 0
    /\ upscaled_count = 0
    /\ loop_i = 0
    /\ interpolated_dir = "none"
    /\ stages = <<>>
    /\ tools_invoked = <<>>
    /\ progress_emitted = <<>>
    /\ finished_emitted = <<>>
    /\ stop_observed = {}
    /\ encoder_invoked = FALSE
    /\ output_written = FALSE
    /\ preset = "none"
    /\ video_fps = 0
    /\ output_fps = 0
    /\ interp_source_fps = 0
    /\ final_fps = 0
    /\ turns_after_stop = 0
    /\ raised = [kind |-> "none", message |-> ""]
    /\ pair_fallbacks = 0

Init ==
    /\ WorkerInit
    /\ InterpIdle
    /\ QueueIdle
    /\ UpscaleIdle
    /\ EncodeIdle
    /\ VramIdle
    /\ BufferIdle

Next ==
    \/ Stop /\ UNCHANGED <<ivars, qvars, uvars, evars, vvars, bvars>>
    \/ InitEngine /\ UNCHANGED <<ivars, qvars, uvars, evars, vvars, bvars>>
    \/ Probe /\ UNCHANGED <<ivars, qvars, uvars, evars, vvars, bvars>>
    \/ MakeTempDir /\ UNCHANGED <<ivars, qvars, uvars, evars, vvars, bvars>>
    \/ CheckExtract /\ UNCHANGED <<ivars, qvars, uvars, evars, vvars, bvars>>
    \/ Extract /\ UNCHANGED <<ivars, qvars, uvars, evars, vvars, bvars>>
    \/ CheckUpscale /\ UNCHANGED <<ivars, qvars, uvars, evars, vvars, bvars>>
    \/ UpscaleInit /\ UNCHANGED <<ivars, qvars, uvars, evars, vvars, bvars>>
    \/ UpscaleFrame /\ UNCHANGED <<ivars, qvars, uvars, evars, vvars, bvars>>
    \/ UpscaleDone /\ UNCHANGED <<ivars, qvars, uvars, evars, vvars, bvars>>
    \/ CheckInterpolate /\ UNCHANGED <<ivars, qvars, uvars, evars, vvars, bvars>>
    \/ InterpolateInit /\ UNCHANGED <<ivars, qvars, uvars, evars, vvars, bvars>>
    \/ InterpolateFrame /\ UNCHANGED <<ivars, qvars, uvars, evars, vvars, bvars>>
    \/ InterpolateRaise /\ UNCHANGED <<ivars, qvars, uvars, evars, vvars, bvars>>
    \/ InterpolateDone /\ UNCHANGED <<ivars, qvars, uvars, evars, vvars, bvars>>
    \/ AfterInterpolate /\ UNCHANGED <<ivars, qvars, uvars, evars, vvars, bvars>>
    \/ CheckEncode /\ UNCHANGED <<ivars, qvars, uvars, evars, vvars, bvars>>
    \/ Encode /\ UNCHANGED <<ivars, qvars, uvars, evars, vvars, bvars>>
    \/ Cleanup /\ UNCHANGED <<ivars, qvars, uvars, evars, vvars, bvars>>

Spec == Init /\ [][Next]_vars

InitInterp ==
    /\ WorkerIdle
    /\ InterpInit
    /\ QueueIdle
    /\ UpscaleIdle
    /\ EncodeIdle
    /\ VramIdle
    /\ BufferIdle

NextInterp ==
    \/ IpStart /\ UNCHANGED <<wvars, qvars, uvars, evars, vvars, bvars>>
    \/ RifeFrame /\ UNCHANGED <<wvars, qvars, uvars, evars, vvars, bvars>>
    \/ SimpleFrame /\ UNCHANGED <<wvars, qvars, uvars, evars, vvars, bvars>>
    \/ IpReturn /\ UNCHANGED <<wvars, qvars, uvars, evars, vvars, bvars>>

SpecInterp == InitInterp /\ [][NextInterp]_vars

InitQueue ==
    /\ WorkerIdle
    /\ InterpIdle
    /\ QueueInit
    /\ UpscaleIdle
    /\ EncodeIdle
    /\ VramIdle
    /\ BufferIdle

NextQueue ==
    \/ (\E path \in Paths : add_task(path)) /\ UNCHANGED <<wvars, ivars, uvars, evars, vvars, bvars>>
    \/ on_start /\ UNCHANGED <<wvars, ivars, uvars, evars, vvars, bvars>>
    \/ on_pause /\ UNCHANGED <<wvars, ivars, uvars, evars, vvars, bvars>>
    \/ (\E path \in Paths : remove_task(path)) /\ UNCHANGED <<wvars, ivars, uvars, evars, vvars, bvars>>
    \/ clear_all_tasks /\ UNCHANGED <<wvars, ivars, uvars, evars, vvars, bvars>>
    \/ (\E path \in Paths : retry_selected_task(path))
          /\ UNCHANGED <<wvars, ivars, uvars, evars, vvars, bvars>>
    \/ Deliver /\ UNCHANGED <<wvars, ivars, uvars, evars, vvars, bvars>>
    \/ (\E w \in 1..Len(workers) : WorkerStatus(w))
          /\ UNCHANGED <<wvars, ivars, uvars, evars, vvars, bvars>>
    \/ (\E w \in 1..Len(workers) : WorkerProgress(w))
          /\ UNCHANGED <<wvars, ivars, uvars, evars, vvars, bvars>>
    \/ (\E w \in 1..Len(workers) : WorkerFinish(w))
          /\ UNCHANGED <<wvars, ivars, uvars, evars, vvars, bvars>>
    \/ (\E w \in 1..Len(workers) : WorkerReturn(w))
          /\ UNCHANGED <<wvars, ivars, uvars, evars, vvars, bvars>>
    \/ (\E w \in 1..Len(workers) : WorkerCleanup(w))
          /\ UNCHANGED <<wvars, ivars, uvars, evars, vvars, bvars>>

SpecQueue == InitQueue /\ [][NextQueue]_vars

InitUpscale ==
    /\ WorkerIdle
    /\ InterpIdle
    /\ QueueIdle
    /\ UpscalerEngineInit
    /\ EncodeIdle
    /\ VramIdle
    /\ BufferIdle

NextUpscale ==
    \/ upscale_batch_enter /\ UNCHANGED <<wvars, ivars, qvars, evars, vvars, bvars>>
    \/ upscale_batch_turn /\ UNCHANGED <<wvars, ivars, qvars, evars, vvars, bvars>>
    \/ upscale_batch_return /\ UNCHANGED <<wvars, ivars, qvars, evars, vvars, bvars>>

SpecUpscale == InitUpscale /\ [][NextUpscale]_vars

InitEncode ==
    /\ WorkerIdle
    /\ InterpIdle
    /\ QueueIdle
    /\ UpscaleIdle
    /\ EncodeInit
    /\ VramIdle
    /\ BufferIdle

NextEncode ==
    \/ encode_build /\ UNCHANGED <<wvars, ivars, qvars, uvars, vvars, bvars>>
    \/ encode_run /\ UNCHANGED <<wvars, ivars, qvars, uvars, vvars, bvars>>

SpecEncode == InitEncode /\ [][NextEncode]_vars

InitVram ==
    /\ WorkerIdle
    /\ InterpIdle
    /\ QueueIdle
    /\ UpscaleIdle
    /\ EncodeIdle
    /\ VramInit
    /\ BufferIdle

NextVram ==
    \/ update_vram_status /\ UNCHANGED <<wvars, ivars, qvars, uvars, evars, bvars>>

SpecVram == InitVram /\ [][NextVram]_vars

InitBuffer ==
    /\ WorkerIdle
    /\ InterpIdle
    /\ QueueIdle
    /\ UpscaleIdle
    /\ EncodeIdle
    /\ VramIdle
    /\ FrameBufferInit

NextBuffer ==
    \/ (\E p \in Producers : put_test(p))
          /\ UNCHANGED <<wvars, ivars, qvars, uvars, evars, vvars>>
    \/ (\E p \in Producers : put_append(p))
          /\ UNCHANGED <<wvars, ivars, qvars, uvars, evars, vvars>>
    \/ (\E c \in Consumers : get_test(c))
          /\ UNCHANGED <<wvars, ivars, qvars, uvars, evars, vvars>>
    \/ (\E c \in Consumers : get_pop(c))
          /\ UNCHANGED <<wvars, ivars, qvars, uvars, evars, vvars>>

SpecBuffer == InitBuffer /\ [][NextBuffer]_vars

(* ------------------------------ claims -------------------------------- *)

\* The run of the worker has ended: run() has returned.
RunReturned == pc = "done"

\* The task's terminal notification says Completed.
Completed ==
    \E k \in 1..Len(finished_emitted) : finished_emitted[k].success

\* The task's terminal notification says Failed.
Failed ==
    \E k \in 1..Len(finished_emitted) : ~finished_emitted[k].success

\* The place of a stage in the order of section 4.5.
StageRank(s) ==
    CASE s = "Probing" -> 1
      [] s = "Extracting" -> 2
      [] s = "Upscaling" -> 3
      [] s = "Interpolating" -> 4
      [] s = "Encoding" -> 5

\* A stage has been entered.
Entered(s) == \E k \in 1..Len(stages) : stages[k] = s

\* C1: every run of a worker ends with exactly one terminal notification,
\* however it ends (completion, an exception, a stop observed at a boundary).
\* The code emits none when a stop is observed.
C1_ExactlyOneTerminal == RunReturned => Len(finished_emitted) = 1

\* C2: a stop observed at any stage boundary means the encoder is never
\* invoked, no file is written at output_path, and once cleanup has run the
\* temp directory is gone.
C2_StopLeavesNoOutput ==
    stop_observed # {} =>
        /\ ~encoder_invoked
        /\ ~output_written
        /\ RunReturned => (temp_dir = "removed" /\ stage_dirs = {})

\* C2 witness: a stop was observed before interpolation (and so before
\* encoding) and the run has returned.
C2_Witness ==
    /\ "interpolate" \in stop_observed
    /\ RunReturned
    /\ temp_dir = "removed"

\* C4: the progress values one run emits never decrease.
C4_ProgressNonDecreasing ==
    \A k \in 1..(Len(progress_emitted) - 1) :
        progress_emitted[k] <= progress_emitted[k + 1]

\* C4 witness: the interpolation stage failed after reporting progress for
\* some frames, and the run went on to complete.
C4_Witness ==
    /\ RunReturned
    /\ Completed
    /\ Entered("Interpolating")
    /\ interpolated_dir = "upscaled"
    /\ loop_i > 0
    /\ frame_count = MaxFrames

\* C5: a Completed task's last progress value is 100.  The code's last value
\* is 80.
C5_CompletedReaches100 ==
    Completed =>
        /\ progress_emitted # <<>>
        /\ progress_emitted[Len(progress_emitted)] = 100

\* C6: whatever the outcome, once run() has returned the temp directory the
\* task created no longer exists.
C6_TempDirRemoved ==
    RunReturned => (temp_dir # "exists" /\ stage_dirs = {})

\* C6 witness: a task that failed in the upscale stage, its temp directory
\* created and removed.
C6_Witness ==
    /\ RunReturned
    /\ Failed
    /\ stages = <<"Probing", "Extracting", "Upscaling">>
    /\ temp_dir = "removed"

\* C7: the Resource Monitor is consulted before Extracting, and a failing
\* check ends the task as Failed with no external tool invoked.  The worker
\* never consults it.
C7_ResourceGate ==
    /\ Entered("Extracting") => resource_checks > 0
    /\ ~resources_ok =>
          /\ tools_invoked = <<>>
          /\ RunReturned => (Failed /\ ~Completed)

\* C8: the stages are entered in the order Probing, Extracting, Upscaling,
\* Interpolating, Encoding, none twice, and none after the terminal
\* notification.
C8_StagesForward ==
    /\ \A k \in 1..(Len(stages) - 1) :
          StageRank(stages[k]) < StageRank(stages[k + 1])
    /\ finished_emitted # <<>> => pc \in {"cleanup", "done"}

\* C8 witness: the interpolation stage failed and the task went on to encode.
C8_Witness ==
    /\ stages = <<"Probing", "Extracting", "Upscaling", "Interpolating",
                  "Encoding">>
    /\ interpolated_dir = "upscaled"
    /\ RunReturned

\* C9: once stop() has been called is_running() stays False, and no step
\* sets a cleared flag again.
C9_StopIsMonotonic ==
    [][/\ stop_called' => ~is_running'
       /\ ~is_running => ~is_running']_vars

\* C9 witness: a stopped worker whose run has gone through cleanup.
C9_Witness ==
    /\ stop_called
    /\ ~is_running
    /\ RunReturned
    /\ stop_observed # {}

\* C10: with no failing pair the interpolation stage writes and returns
\* n + (n - 1) * c frames, with either engine.  The simple fallback writes
\* n * (c + 1).
C10_OutputFrameCount ==
    (ip_pc = "done" /\ ip_n >= 1 /\ ip_failed = 0) =>
        LET c == IF ip_count > 0 THEN ip_count ELSE 0
        IN  /\ Len(ip_out) = ip_n + (ip_n - 1) * c
            /\ ip_result.count = ip_n + (ip_n - 1) * c

\* C3: at most one worker is executing its pipeline at any time.  Pausing
\* only requests a stop, and starting again starts a second worker.
C3_AtMostOneExecuting == Cardinality(Executing) <= 1

\* The number of frames section 4.3 inserts between two consecutive frames.
insertCount(source_fps, target_fps) ==
    IF (target_fps \div source_fps) - 1 > 0
    THEN (target_fps \div source_fps) - 1 ELSE 0

\* The frames written after input frame i and before input frame i + 1,
\* the copies of frame i itself left out.
Inserted(i) ==
    Cardinality({k \in 1..Len(ip_out) :
                    ip_out[k].src = i /\ ip_out[k].kind # "orig"})

\* The pair starting at input frame i raised and the fallback copy was made.
PairRaised(i) == \E k \in 1..Len(ip_out) : ip_out[k] = CopyFrame(i, 0)

C12_UnmappedPassThrough ==
    /\ (ip_pc # "start" /\ ip_target_arg = 0
           /\ IntFps(ip_source_fps) \in {24, 25, 30, 48, 50})
          => ip_target_fps = 6000
    /\ (ip_pc = "done" /\ ip_target_arg = 0 /\ ip_n >= 1
           /\ IntFps(ip_source_fps) \notin {24, 25, 30, 48, 50})
          => /\ ip_result.fps = ip_source_fps
             /\ Len(ip_out) = ip_n

\* C13: extract_frames returns the probed source rate whatever the
\* ProcessingOptions, so the rate the worker gives the interpolation stage
\* as source_fps is the source rate.  With a preset that carries a target
\* rate the code returns that target.
C13_ExtractReturnsSourceRate ==
    /\ output_fps # 0 => output_fps = video_fps
    /\ interp_source_fps # 0 => interp_source_fps = video_fps

\* C19: the frame loops of the upscale and interpolation stages read the
\* cancellation flag: once stop() has been called, the stage finishes at
\* most the frame in flight.  Neither loop reads the flag.
C19_LoopsObserveStop == turns_after_stop <= 1

\* C20: the stage directories come and go in the order frames, upscaled,
\* interpolated; frames/ stays until upscale_batch has returned, upscaled/
\* stays until the interpolation has returned successfully, and the
\* directory handed to the encoder exists when the encoder runs.
C20_StageDirLifecycle ==
    /\ stage_dirs \in {{}, {"frames"}, {"frames", "upscaled"}, {"upscaled"},
                       {"upscaled", "interpolated"}, {"interpolated"}}
    /\ pc \in {"check_upscale", "upscale_init", "upscale_loop"}
          => "frames" \in stage_dirs
    /\ pc \in {"check_interpolate", "interpolate_init", "interpolate_loop"}
          => "upscaled" \in stage_dirs
    /\ (pc \in {"after_interpolate", "check_encode", "encode"}
           /\ interpolated_dir = "upscaled")
          => "upscaled" \in stage_dirs
    /\ pc = "encode" => interpolated_dir \in stage_dirs

\* C20 witness: the interpolation stage raised part-way and the encoder is
\* about to read the upscaled frames, which are still there.
C20_Witness ==
    /\ pc = "encode"
    /\ Entered("Interpolating")
    /\ interpolated_dir = "upscaled"
    /\ stage_dirs = {"upscaled", "interpolated"}

\* The turns of upscale_batch in which the frame was written.
Succeeded == {k \in 1..Len(up_log) : up_log[k].outcome = "written"}

\* C14: whatever out-of-memory events a batch meets, the tile size never
\* increases and never goes below 64.
C14_TileSizeMonotonic ==
    [][tile_size' <= tile_size /\ tile_size' >= 64]_vars

\* C14 witness: the tile size has come down to the floor and enhance ran
\* out of memory again there.
C14_Witness ==
    /\ tile_size = 64
    /\ \E k \in 1..Len(up_log) :
          /\ up_log[k].tile_before = 64
          /\ up_log[k].outcome = "oom"
    /\ \E k \in 1..Len(up_log) : up_log[k].tile_before > 64

\* C15: a frame on which enhance runs out of memory at 256 and at 128 but
\* not at 64 is retried at 128 and then at 64, written, and counted as
\* succeeded.  The code retries once: the second failure ends the frame.
C15_RetriedDownToFit ==
    \A k \in 1..Len(up_log) :
        (up_log[k].tile_before = 256 /\ up_log[k].frame.readable
           /\ up_log[k].frame.fit = 64)
        => /\ up_log[k].tiles = <<256, 128, 64>>
           /\ up_log[k].outcome = "written"
           /\ up_log[k].name \in up_output

\* C16: a frame whose upscale fails for good is copied through, so when the
\* batch has returned the output directory holds one file per input frame.
\* The code writes nothing for such a frame.
C16_OneFilePerInputFrame ==
    up_pc = "done" => up_output = up_input

\* C17: upscale_batch attempts every input frame once, in ascending order of
\* name, whichever frames fail, and returns (succeeded, total) with total
\* the number of input frames and succeeded the number of frames whose
\* upscale did not raise.
C17_EveryFrameOnceInOrder ==
    /\ \A k \in 1..(Len(up_log) - 1) : up_log[k].name < up_log[k + 1].name
    /\ \A k \in 1..Len(up_log) : up_log[k].name \in up_input
    /\ up_pc = "done" =>
          /\ {up_log[k].name : k \in 1..Len(up_log)} = up_input
          /\ Len(up_log) = Cardinality(up_input)
          /\ up_result.total = Cardinality(up_input)
          /\ up_result.success = Cardinality(Succeeded)
          /\ up_result.success <= up_result.total

\* C17 witness: a batch of MaxFrames frames has returned, some frames
\* written and some failed.
C17_Witness ==
    /\ up_pc = "done"
    /\ up_result.total = MaxFrames
    /\ up_result.success > 0
    /\ up_result.success < up_result.total

\* C18: the progress callback is called once per frame with current = 1, 2,
\* ..., total and a constant total, failed frames included.
C18_CallbackOncePerFrame ==
    up_pc \in {"loop", "done"} =>
        /\ Len(up_callbacks) = Len(up_log)
        /\ \A k \in 1..Len(up_callbacks) :
              up_callbacks[k] = [current |-> k,
                                 total |-> Cardinality(up_input)]
        /\ up_pc = "done" => Len(up_callbacks) = Cardinality(up_input)

\* C18 witness: a batch of MaxFrames frames has returned and its first frame
\* failed.
C18_Witness ==
    /\ up_pc = "done"
    /\ Len(up_callbacks) = MaxFrames
    /\ up_log[1].outcome # "written"

\* The names first, first + 1, ..., with no gap.
Contiguous(S, first) == S = first..(first + Cardinality(S) - 1)

\* C21: the frame indices in a stage's output directory are contiguous and
\* follow the source order, also when frames of the upscale stage failed.
\* The upscale stage writes nothing for a failed frame, which leaves a gap.
C21_IndicesContiguous ==
    (up_pc = "done" /\ Contiguous(up_input, 1)) => Contiguous(up_output, 1)

\* C22: a pair whose interpolation raised still gets insertCount frames, so
\* the stage writes as many frames as without failures.  The code's fallback
\* is one copy of the frame, whatever insertCount is.
C22_FailedPairKeepsCount ==
    (ip_pc = "done" /\ ip_engine = "rife" /\ ip_n >= 1) =>
        /\ \A i \in 0..(ip_n - 2) :
              Inserted(i) = insertCount(ip_source_fps, ip_target_fps)
        /\ Len(ip_out) =
              ip_n + (ip_n - 1) * insertCount(ip_source_fps, ip_target_fps)

\* The frames of the task that got a degraded fallback: upscale frames that
\* failed and interpolation pairs that fell back.
Fallbacks == (frame_count - upscaled_count) + pair_fallbacks

\* encode_video ran the media tool and it returned a non-zero status.
EncodeFailed == encoder_invoked /\ ~output_written

\* C23: the terminal report of a Completed task carries the number of frames
\* that needed a degraded fallback, equal to the failures that occurred.
\* The code's report is (True, "成功处理: <output_path>") and no more.
C23_ReportCarriesFallbacks ==
    \A k \in 1..Len(finished_emitted) :
        finished_emitted[k].success =>
            /\ "fallbacks" \in DOMAIN finished_emitted[k]
            /\ finished_emitted[k].fallbacks = Fallbacks

\* C24: a non-zero status of the media tool during encoding makes encode
\* fail with a VideoError carrying the tool's diagnostic output; the task
\* ends as Failed, the error's kind and message reach the caller, and no
\* Completed notification is emitted.  The code raises RuntimeError and
\* run() passes on str(e) only.
C24_EncodeFailureSurfaced ==
    EncodeFailed =>
        /\ raised.kind = "VideoError"
        /\ raised.message = "Encoding failed: stderr"
        /\ Failed
        /\ ~Completed
        /\ \A k \in 1..Len(finished_emitted) :
              /\ finished_emitted[k].message = raised.message
              /\ "kind" \in DOMAIN finished_emitted[k]

\* Helpers: the argument list holds a flag; the argument that follows it.
HasArg(params, flag) == \E i \in 1..Len(params) : params[i] = flag
ArgOf(params, flag) ==
    params[(CHOOSE i \in 1..Len(params) : params[i] = flag) + 1]

\* C25: for every codec and every preset, and with no options, a hardware
\* (nvenc) codec gets a p-preset and -cq, a software codec gets -crf and a
\* named preset; -cq and -crf never occur together and the codec arguments
\* end with -pix_fmt yuv420p.
C25_EncoderArguments ==
    en_pc \in {"built", "done"} =>
        /\ ~(HasArg(en_params, "-cq") /\ HasArg(en_params, "-crf"))
        /\ HasArg(en_params, "-preset")
        /\ nvenc_in(en_codec) =>
              /\ HasArg(en_params, "-cq")
              /\ ArgOf(en_params, "-cq") \in {"18", "20", "23"}
              /\ ArgOf(en_params, "-preset") \in {"p1", "p4", "p7"}
        /\ ~nvenc_in(en_codec) =>
              /\ HasArg(en_params, "-crf")
              /\ ArgOf(en_params, "-crf") \in {"18", "20", "23"}
              /\ ArgOf(en_params, "-preset") \in {"fast", "medium", "slow"}
        /\ ArgOf(en_params, "-c:v") = en_codec
        /\ Len(en_params) >= 2
        /\ en_params[Len(en_params) - 1] = "-pix_fmt"
        /\ en_params[Len(en_params)] = "yuv420p"

C25_Witness ==
    /\ en_pc = "done"
    /\ en_options = "high"
    /\ en_codec = "libx265"
    /\ en_params = <<"-c:v", "libx265", "-crf", "18", "-preset", "slow",
                     "-pix_fmt", "yuv420p">>

\* C26, as the program behaves: with 4.5 GB available the High preset
\* (6 GB) is reported as not compatible, 4.5 being below 0.8 x 6 = 4.8; the
\* warning is reported for High from 4.9 GB up to, not including, 6 GB.
C26_HighWith45IsInsufficient ==
    (vr_pc = "done" /\ vr_level = "high") =>
        /\ vr_available = 45 =>
              vr_result = [compatible |-> FALSE, message |-> "insufficient"]
        /\ vr_available \in 49..59 =>
              vr_result = [compatible |-> TRUE, message |-> "tight"]

C26_Witness ==
    /\ vr_pc = "done"
    /\ vr_level = "high"
    /\ vr_available = 45
    /\ ~vr_result.compatible

\* C26 as stated: 4.5 GB with the High preset is compatible with a warning.
C26_HighWith45IsWarning ==
    (vr_pc = "done" /\ vr_level = "high" /\ vr_available = 45) =>
        vr_result = [compatible |-> TRUE, message |-> "tight"]

\* C27: under the Standard preset a 1080p frame is upscaled with the tile
\* size the resolution table gives for 1080p.
C27_TileSizeFromTable ==
    (up_preset = "standard" /\ up_frame_size = "1080p" /\ Len(up_log) >= 1) =>
        up_log[1].tile_before = VRAM_CONFIG_tile_sizes("1080p")

\* C30: the scale the upscaler applies is the scale_factor of the task's
\* ProcessingOptions, for every preset.
C30_ScaleMatchesOptions ==
    Len(up_log) >= 1 => up_scale = preset_scale_factor(up_preset)

\* C28: a task that does no interpolation has no 20-point span of overall
\* progress passed without work: the progress never goes from 60 straight
\* to 80 unless the interpolation stage was entered.
C28_NoSpanSkippedWithoutWork ==
    ~Entered("Interpolating") =>
        \A k \in 1..(Len(progress_emitted) - 1) :
            ~(progress_emitted[k] = 60 /\ progress_emitted[k + 1] = 80)

\* The five task statuses of section 3.
TaskStatuses == {"pending", "processing", "paused", "completed", "failed"}

\* C29: every task's recorded status is one of the five values, in the task
\* table and in the state save_state persisted.
C29_StatusIsOneOfFive ==
    /\ \A p \in DOMAIN tasks : tasks[p].status \in TaskStatuses
    /\ \A p \in DOMAIN saved_tasks : saved_tasks[p] \in TaskStatuses

\* A finished signal is still to be delivered.
FinishedInFlight ==
    \E k \in 1..Len(channel) : channel[k].kind = "finished"

\* C31: the queue is never processing, unpaused, with pending tasks, while
\* no worker is executing and no finished signal is on its way: nothing
\* would start the next pending task.
C31_QueueNeverStranded ==
    ~(/\ is_processing
      /\ ~is_paused
      /\ pending_tasks # <<>>
      /\ Executing = {}
      /\ ~FinishedInFlight)

\* Helpers on lists of paths.
NoDuplicates(seq) ==
    \A j, k \in 1..Len(seq) : seq[j] = seq[k] => j = k
Elements(seq) == {seq[k] : k \in 1..Len(seq)}

\* C32: pending_tasks, failed_tasks and completed_tasks are duplicate-free,
\* pairwise disjoint and hold only keys of tasks.
C32_ListsPartitionTasks ==
    /\ NoDuplicates(pending_tasks)
    /\ NoDuplicates(failed_tasks)
    /\ NoDuplicates(completed_tasks)
    /\ Elements(pending_tasks) \cap Elements(failed_tasks) = {}
    /\ Elements(pending_tasks) \cap Elements(completed_tasks) = {}
    /\ Elements(failed_tasks) \cap Elements(completed_tasks) = {}
    /\ Elements(pending_tasks) \cup Elements(failed_tasks)
          \cup Elements(completed_tasks) \subseteq DOMAIN tasks

\* The interpolation stage was entered and has ended: by raising part-way,
\* or by returning.
AfterInterpolation ==
    /\ Entered("Interpolating")
    /\ pc \in {"after_interpolate", "check_encode", "encode"}
InterpolationRaised == AfterInterpolation /\ loop_i < upscaled_count
InterpolationReturned == AfterInterpolation /\ loop_i = upscaled_count

\* C34: an exception of the interpolation stage does not fail the task: it
\* goes on to the encoder with the upscaled directory and the rate from
\* before the interpolation; and whenever the encoder is about to run, the
\* directory it is given exists and is that of the last stage that
\* completed.
C34_InterpolationFailureFallsBack ==
    /\ (Entered("Interpolating") /\ Failed) => encoder_invoked
    /\ InterpolationRaised =>
          /\ ~Failed
          /\ raised.kind = "none"
          /\ interpolated_dir = "upscaled"
          /\ final_fps = output_fps
    /\ pc = "encode" =>
          /\ interpolated_dir \in stage_dirs
          /\ interpolated_dir =
                IF InterpolationReturned THEN "interpolated" ELSE "upscaled"

C34_Witness ==
    /\ pc = "encode"
    /\ InterpolationRaised
    /\ loop_i >= 1
    /\ preset = "standard"

\* C39: at most two of the three stage directories exist at any time.
C39_AtMostTwoStageDirs == Cardinality(stage_dirs) <= 2

C39_Witness ==
    /\ pc = "interpolate_loop"
    /\ stage_dirs = {"upscaled", "interpolated"}
    /\ loop_i >= 1

\* The number of frames the interpolation stage added after each input
\* frame of the directory the encoder is given (0 when the stage did not
\* run to its end).
EncodeInsertCount ==
    IF ~InterpolationReturned THEN 0
    ELSE IF rife_loaded
    THEN calculate_interpolation_frames(
             interp_source_fps, TARGET_FPS(interp_source_fps)).count
    ELSE n_duplicates(interp_source_fps, TARGET_FPS(interp_source_fps))

\* C38: with a preset that has a target frame rate, the rate handed to the
\* encoder is the source video's rate times (insertCount + 1).
C38_EncodeRateMatchesFrames ==
    (pc = "encode" /\ preset \in {"standard", "high"} /\ upscaled_count >= 1)
        => final_fps = video_fps * (EncodeInsertCount + 1)

\* A sequence is the beginning of another.
IsPrefix(s, t) == Len(s) <= Len(t) /\ \A k \in 1..Len(s) : s[k] = t[k]

\* C40: the buffer never holds more than max_size frames, and get returns
\* the frames in the order they were put.
C40_BoundedAndFifo ==
    /\ Len(fb_buffer) <= fb_max_size
    /\ IsPrefix(fb_got, fb_appended)

\* C37: no worker is executing while an earlier worker that was never
\* stopped is still in its _cleanup: the queue does not see a worker's
\* finished notification before that worker has removed its temp directory
\* and released its engines.
C37_CleanupBeforeNextStart ==
    \A w1, w2 \in 1..Len(workers) :
        ~(/\ w1 < w2
          /\ workers[w1].phase = "cleanup"
          /\ workers[w1].is_running
          /\ workers[w2].phase = "running")

\* A progress signal is still to be delivered.
ProgressInFlight ==
    \E k \in 1..Len(channel) : channel[k].kind = "progress"

\* C33: the total-progress computation never divides by zero: whenever a
\* progress signal is still to be delivered the task table is not empty, and
\* no delivery has raised.
C33_NoDivisionByZero ==
    /\ ~zero_division
    /\ ProgressInFlight => Cardinality(DOMAIN tasks) > 0

\* A step that starts a worker; a step in which the event loop delivers a
\* signal; the task of the current worker.
WorkerStarted == Len(workers') = Len(workers) + 1
Delivered == channel # <<>> /\ channel' = Tail(channel)
CurrentPath == workers[current_worker].input_path

\* C35, as the program behaves: while the queue is paused only a step that
\* ends the pause (start_processing) starts a worker; a callback delivered
\* during the pause leaves the paused task in pending_tasks unless it is the
\* finished notification of that task; and when the pause ends with the
\* paused task's worker still current, that task is the one started.
C35_PauseHoldsTheQueue ==
    [][/\ (is_paused /\ WorkerStarted) => ~is_paused'
       /\ (is_paused /\ is_paused' /\ current_worker # 0 /\ Delivered
             /\ ~(Head(channel).kind = "finished"
                    /\ Head(channel).path = CurrentPath))
             => (Contains(pending_tasks, CurrentPath)
                    => Contains(pending_tasks', CurrentPath))
       /\ (is_paused /\ ~is_paused' /\ current_worker # 0 /\ WorkerStarted)
             => /\ workers'[Len(workers')].input_path = CurrentPath
                /\ pending_tasks'[1] = CurrentPath]_vars

\* C35 witness: the queue was paused and started again, and the paused task
\* has been started a second time.
C35_Witness ==
    /\ Len(workers) = 2
    /\ workers[1].input_path = workers[2].input_path
    /\ ~workers[1].is_running
    /\ workers[2].phase = "running"
    /\ current_worker = 2
    /\ ~is_paused
    /\ Len(pending_tasks) = 2

\* C35 as stated: whatever callback arrives during the pause, the paused
\* task stays in pending_tasks.
C35_PausedTaskStaysPending ==
    [][(is_paused /\ is_paused' /\ current_worker # 0 /\ Delivered)
          => (Contains(pending_tasks, CurrentPath)
                 => Contains(pending_tasks', CurrentPath))]_vars

\* C36: a worker is started for the head of pending_tasks only; a finished
\* notification, Completed or Failed, delivered while the queue is not
\* paused starts the next pending task at once; and all_finished is emitted
\* only when pending_tasks is empty.
C36_FifoAndFailureDoesNotBlock ==
    [][/\ WorkerStarted =>
             /\ pending_tasks' # <<>>
             /\ workers'[Len(workers')].input_path = pending_tasks'[1]
             /\ current_worker' = Len(workers')
       /\ (Delivered /\ Head(channel).kind = "finished" /\ ~is_paused
             /\ pending_tasks' # <<>>)
             => WorkerStarted
       /\ all_finished' # all_finished => pending_tasks' = <<>>]_vars

\* C36 witness: the first task ended as Failed and the second, added after
\* it, is running.
C36_Witness ==
    /\ Len(workers) = 2
    /\ workers[1].input_path = "a.mp4"
    /\ workers[2].input_path = "b.mp4"
    /\ workers[2].phase = "running"
    /\ "a.mp4" \in DOMAIN tasks
    /\ tasks["a.mp4"].status = "failed"
    /\ failed_tasks = <<"a.mp4">>
    /\ pending_tasks = <<"b.mp4">>
    /\ ~is_paused
=============================================================================
